---- MODULE Spec2Model ----
(***************************************************************************)
(* A model of the GPUDirect Storage virtual file driver, src/H5FDgds.c.    *)
(*                                                                         *)
(* Eleven state machines share the module:                                 *)
(*   SpecPart  the chunk arithmetic of H5FD_gds_read / H5FD_gds_write,     *)
(*             applied to requests drawn from bounded sets;                *)
(*   Spec      one handle on one file: open, close, set_eoa, truncate,     *)
(*             read and write on the host path and on the device path,     *)
(*             the device path with its worker threads interleaved;        *)
(*   SpecReopen  one handle on a file that is created, written, closed     *)
(*             and opened again;                                           *)
(*   SpecDrv   several handles opened and closed, serially or              *)
(*             concurrently, over the process-wide cuFile driver;          *)
(*   SpecPure  H5FD_gds_cmp, is_device_pointer and the check of addr and   *)
(*             size applied to arguments drawn from bounded sets;          *)
(*   SpecLock  two handles on one file, locked and unlocked;               *)
(*   SpecArgs  one handle, open, read and write called with valid and      *)
(*             with invalid arguments;                                     *)
(*   SpecWorker  one worker thread (read_thread_fn / write_thread_fn) on   *)
(*             one chunk descriptor, SpecWorkerLive with the thread        *)
(*             scheduled fairly;                                           *)
(*   SpecSeek  one handle read and written on the host path without        *)
(*             pread/pwrite;                                               *)
(*   SpecHost  one handle read and written on the host path alone,         *)
(*             SpecHostLive with the loop of the call running on;          *)
(*   SpecConfig  one handle with worker threads or without, read, written, *)
(*             truncated, locked and unlocked, no call failing.            *)
(*                                                                         *)
(* TLC's integers are 32 bits wide, so the C types are scaled: the 32-bit  *)
(* types (int, unsigned) are UnsignedBits wide and the 64-bit types        *)
(* (size_t, ssize_t, haddr_t, HDoff_t, off_t) are OffBits wide.  The page  *)
(* granularity 4096 is the program's own.                                  *)
(*                                                                         *)
(* File and buffer contents are kept as run lists: a run [len, src, off]   *)
(* stands for len bytes, byte k of it being byte off+k of the source src   *)
(* ("zero": a zero byte; "junk": what a buffer held before the call; any   *)
(* other: a pattern the caller wrote).  Two bytes are equal exactly when   *)
(* they are the same byte of the same source.                              *)
(***************************************************************************)
EXTENDS Integers, Sequences, FiniteSets, TLC

(***************************************************************************)
(* Bounds of the model.                                                    *)
(***************************************************************************)
UnsignedBits == 16
OffBits == 20
MaxThreads == 3
NHandles == 2
MaxOps == 3
MaxOpens == 2
IoOps == 2
IoOpens == 1
MaxFaults == 1
MaxSetEoa == 1
H5_POSIX_MAX_IO_BYTES == 8192

(***************************************************************************)
(* Program constants.                                                      *)
(***************************************************************************)
PageSize == 4096
SUCCEED == 0
FAIL == -1
NULL == 0

RECURSIVE Pow2(_)
Pow2(n) == IF n <= 0 THEN 1 ELSE 2 * Pow2(n - 1)

Min(a, b) == IF a < b THEN a ELSE b

Max(a, b) == IF a < b THEN b ELSE a

(* The C conversions of the scaled types. *)
UINT_MOD == Pow2(UnsignedBits)

SIZE_MOD == Pow2(OffBits)

ToUnsigned(x) == x % UINT_MOD

ToInt(x) ==
    LET u == x % UINT_MOD
    IN  IF u >= UINT_MOD \div 2 THEN u - UINT_MOD ELSE u

ToSizeT(x) == x % SIZE_MOD

MAXADDR == Pow2(OffBits - 1) - 1

HADDR_UNDEF == SIZE_MOD - 1

(***************************************************************************)
(* Run lists.                                                              *)
(***************************************************************************)
Run(len, src, off) == [len |-> len, src |-> src, off |-> off]

ZeroRun(n) == IF n <= 0 THEN <<>> ELSE <<Run(n, "zero", 0)>>

JunkRun(n) == IF n <= 0 THEN <<>> ELSE <<Run(n, "junk", 0)>>

PatRun(p, n) == IF n <= 0 THEN <<>> ELSE <<Run(n, p, 0)>>

RECURSIVE Bytes(_)
Bytes(rs) == IF rs = <<>> THEN 0 ELSE Head(rs).len + Bytes(Tail(rs))

Mergeable(a, b) ==
    /\ a.src = b.src
    /\ (a.src = "zero" \/ b.off = a.off + a.len)

RECURSIVE Norm(_)
Norm(rs) ==
    IF rs = <<>> THEN <<>>
    ELSE LET h == Head(rs)
             t == Norm(Tail(rs))
         IN  IF h.len <= 0 THEN t
             ELSE IF t # <<>> /\ Mergeable(h, Head(t))
                  THEN <<[h EXCEPT !.len = h.len + Head(t).len]>> \o Tail(t)
                  ELSE <<h>> \o t

RECURSIVE Take(_, _)
Take(rs, n) ==
    IF n <= 0 \/ rs = <<>> THEN <<>>
    ELSE IF Head(rs).len <= n
         THEN <<Head(rs)>> \o Take(Tail(rs), n - Head(rs).len)
         ELSE <<[Head(rs) EXCEPT !.len = n]>>

RECURSIVE Drop(_, _)
Drop(rs, n) ==
    IF n <= 0 \/ rs = <<>> THEN rs
    ELSE IF Head(rs).len <= n
         THEN Drop(Tail(rs), n - Head(rs).len)
         ELSE <<[Head(rs) EXCEPT !.len = @ - n,
                                 !.off = IF Head(rs).src = "zero" THEN 0 ELSE @ + n]>>
              \o Tail(rs)

(* The n bytes of rs from byte at on (fewer when rs ends before). *)
Slice(rs, at, n) == Norm(Take(Drop(rs, at), n))

(* rs with the bytes new stored from byte at on; a store past the end of   *)
(* rs leaves a hole of zero bytes, as a write past the end of a file does. *)
Overwrite(rs, at, new) ==
    Norm(Take(rs, at) \o ZeroRun(at - Bytes(rs)) \o new \o Drop(rs, at + Bytes(new)))

(***************************************************************************)
(* The chunk arithmetic of the device path (H5FD_gds_read lines 938-961,   *)
(* H5FD_gds_write lines 1126-1149).                                        *)
(***************************************************************************)

(* The number of workers without lines 939-941, the reduction to the       *)
(* number of pages.                                                        *)
EffectiveThreadsNoFloor(size, io_threads) == io_threads

(* "make each thread access at least a 4K page" *)
EffectiveThreads(size, io_threads) ==
    IF 1 + (size - 1) \div PageSize < ToUnsigned(io_threads)
    THEN ToInt(1 + (size - 1) \div PageSize)
    ELSE io_threads

(* io_chunk = (unsigned)size / (unsigned)io_threads *)
IoChunk(size, n) == ToUnsigned(size) \div ToUnsigned(n)

(* io_chunk_rem = (unsigned)size % (unsigned)io_threads *)
IoChunkRem(size, n) == ToUnsigned(size) % ToUnsigned(n)

(* int block_size = file->io_block_size; td[ii].block_size = block_size *)
BlockSize(io_block_size) == ToSizeT(ToInt(io_block_size))

(* The td[] array the request fills in, td[ii] at index ii+1. *)
MakeTd(size, offset, io_threads, io_block_size) ==
    LET n == EffectiveThreads(size, io_threads)
        io_chunk == IoChunk(size, n)
        io_chunk_rem == IoChunkRem(size, n)
    IN  [i \in 1..n |->
            [offset |-> ToSizeT(offset + (i - 1) * io_chunk),
             devPtr_offset |-> ToSizeT((i - 1) * io_chunk),
             size |-> IF i = n THEN ToSizeT(io_chunk + io_chunk_rem)
                               ELSE ToSizeT(io_chunk),
             block_size |-> BlockSize(io_block_size)]]

(***************************************************************************)
(* State.                                                                  *)
(*   p_pc, p_req, p_td      SpecPart: a request and the td[] it fills in   *)
(*   c_pc, c_req, c_ret     SpecPure: a call of a function without side    *)
(*                          effects, its arguments and its result          *)
(*   can_flock              whether the file system supports flock()       *)
(*   serial, have_pread     how the calls are issued (one at a time, or    *)
(*                          concurrently on different handles), and        *)
(*                          whether the build has H5_HAVE_PREADWRITE       *)
(*   disk                   the file system's file: whether it exists, and *)
(*                          its bytes                                      *)
(*   drv_open               the cuFile driver's own state                  *)
(*   cu_file_driver_opened  the static flag of H5FD_gds_open               *)
(*   cu_file_driver_closed  the static flag of H5FD_gds_close              *)
(*   drv_calls              history: a driver open issued on an open       *)
(*                          driver, a driver close issued on a closed one  *)
(*   file                   per handle, the H5FD_gds_t and what it owns    *)
(*   tpc, tloc              per handle, the position of the call in        *)
(*                          progress and its arguments and locals          *)
(*   ret                    per handle, the call that returned last        *)
(*   td                     file->td, the per-worker chunk descriptors     *)
(*   buf                    the bytes of the caller's buffer of the        *)
(*                          request in progress or last returned           *)
(*   pinned                 whether that buffer is registered with cuFile  *)
(*                          (the buffer of a new call is not)              *)
(*   hist                   history: the last write that returned success  *)
(*                          with the file unchanged since, whether the     *)
(*                          handle was reopened since, the file's size at  *)
(*                          the last close                                 *)
(*   nops                   history: the numbers of data calls, of open    *)
(*                          calls and of set_eoa calls made, of calls of   *)
(*                          the system or of cuFile that failed, and of    *)
(*                          those of them that were interrupted            *)
(***************************************************************************)
VARIABLES p_pc, p_req, p_td, c_pc, c_req, c_ret,
          serial, have_pread, can_flock, disk,
          drv_open, cu_file_driver_opened, cu_file_driver_closed, drv_calls,
          file, tpc, tloc, ret,
          td, buf, pinned, hist, nops

partVars == <<p_pc, p_req, p_td, c_pc, c_req, c_ret>>

envVars == <<serial, have_pread, can_flock>>

drvVars == <<drv_open, cu_file_driver_opened, cu_file_driver_closed, drv_calls>>

hVars == <<file, tpc, tloc, ret>>

ioVars == <<td, buf, pinned, hist, nops>>

vars == <<partVars, envVars, disk, drvVars, hVars, ioVars>>

(***************************************************************************)
(* SpecPart: the chunk arithmetic on its own.                              *)
(***************************************************************************)

(* Request sizes: below a page, around page multiples, and at and past the *)
(* range of the unsigned type.                                             *)
PartSizes ==
    {1, 10, PageSize - 1, PageSize, PageSize + 1, 2 * PageSize, 2 * PageSize + 1,
     3 * PageSize + 2, UINT_MOD - 1, UINT_MOD, UINT_MOD + 1, UINT_MOD + 2 * PageSize + 1}

PartOffsets == {0, 1, PageSize}

PartBlockSizes == {PageSize, 2 * PageSize}

PureIdle ==
    /\ c_pc = "idle"
    /\ c_req = [fn |-> "none"]
    /\ c_ret = 0

PartIdle ==
    /\ p_pc = "idle"
    /\ p_req = [size |-> 0, offset |-> 0, io_threads |-> 0, io_block_size |-> 0]
    /\ p_td = <<>>
    /\ PureIdle

InitPart ==
    /\ p_pc = "request"
    /\ p_req \in [size : PartSizes, offset : PartOffsets,
                  io_threads : 1..MaxThreads, io_block_size : PartBlockSizes]
    /\ p_td = <<>>
    /\ PureIdle

(* The request reaches the branch io_threads > 0 and fills in td[]. *)
PartitionRequest ==
    /\ p_pc = "request"
    /\ p_req.io_threads > 0
    /\ p_td' = MakeTd(p_req.size, p_req.offset, p_req.io_threads, p_req.io_block_size)
    /\ p_pc' = "spawned"
    /\ UNCHANGED <<p_req, c_pc, c_req, c_ret, envVars, disk, drvVars, hVars, ioVars>>

(***************************************************************************)
(* Handles: H5FD_gds_open and H5FD_gds_close.                              *)
(***************************************************************************)
Handles == 1..NHandles

(* No H5FD_gds_t: nothing allocated, nothing open. *)
NoFile ==
    [st |-> "none", fd |-> FALSE, direct_fd |-> FALSE, cf_handle |-> FALSE,
     arrays |-> FALSE, obj |-> FALSE, rdwr |-> FALSE,
     num_io_threads |-> 0, io_block_size |-> 0,
     eoa |-> 0, eof |-> 0, pos |-> HADDR_UNDEF, op |-> "OP_UNKNOWN", fdpos |-> 0,
     lock |-> "LOCK_UN"]

NoCall == [fn |-> "none"]

(* A call may start on a handle with no call in progress; when the calls   *)
(* are issued serially, only when no handle has one in progress.           *)
CanStart(h) ==
    /\ tpc[h] = "idle"
    /\ serial => \A g \in Handles : tpc[g] = "idle"

(* ADDR_OVERFLOW without its tests: every address passes. *)
ADDR_OVERFLOW_Never(A) == FALSE

ADDR_OVERFLOW(A) == A = HADDR_UNDEF \/ A > MAXADDR

(* The flags of an open call: read-only, read-write, create-truncate,      *)
(* create-exclusive.                                                       *)
OpenFlags ==
    {[rdwr |-> FALSE, trunc |-> FALSE, creat |-> FALSE, excl |-> FALSE],
     [rdwr |-> TRUE, trunc |-> FALSE, creat |-> FALSE, excl |-> FALSE],
     [rdwr |-> TRUE, trunc |-> TRUE, creat |-> TRUE, excl |-> FALSE],
     [rdwr |-> TRUE, trunc |-> FALSE, creat |-> TRUE, excl |-> TRUE]}

(* What the environment may make fail in an open call. *)
OpenFaults == {"none", "open", "fstat", "calloc", "direct", "register", "famget"}

(* HDopen(name, o_flags) on the file as it is. *)
CanOpen(d, flags) ==
    IF d.exists THEN ~(flags.creat /\ flags.excl) ELSE flags.creat

DiskAfterOpen(d, flags) ==
    [exists |-> TRUE,
     data |-> IF ~d.exists \/ flags.trunc THEN <<>> ELSE d.data]

(* The steps of H5FD_gds_open after the driver check, in order; "none" is  *)
(* the return of the file.                                                 *)
OpenSteps ==
    <<"name", "maxaddr", "overflow", "open", "fstat", "calloc", "direct",
      "register", "fapl", "famget", "none">>

StepIndex(s) == CHOOSE i \in 1..Len(OpenSteps) : OpenSteps[i] = s

(* The first of the argument checks of lines 463-468 that fails. *)
ArgFailure(name, maxaddr) ==
    IF name = "" THEN "name"
    ELSE IF maxaddr = 0 \/ maxaddr = HADDR_UNDEF THEN "maxaddr"
    ELSE IF ADDR_OVERFLOW(maxaddr) THEN "overflow"
    ELSE "none"

(* The first step of lines 471-563 that fails. *)
OpenFailure(a, d) ==
    IF a.fault = "open" \/ ~CanOpen(d, a.flags) THEN "open"
    ELSE IF a.fault = "fstat" THEN "fstat"
    ELSE IF a.fault = "calloc" THEN "calloc"
    ELSE IF a.fault = "direct" THEN "direct"
    ELSE IF a.fault = "register" THEN "register"
    ELSE IF a.fapl.kind = "invalid" THEN "fapl"
    ELSE IF a.fapl.kind = "plist" /\ a.fault = "famget" THEN "famget"
    ELSE "none"

(* Whether the step s was passed before the step failed fails. *)
Passed(s, failed) == StepIndex(s) < StepIndex(failed)

(* The done: block of H5FD_gds_open on failure (lines 569-578): what the   *)
(* call had acquired, less what the block releases.                        *)
OpenCleanup(failed) ==
    [NoFile EXCEPT !.cf_handle = Passed("register", failed),
                   !.arrays = Passed("register", failed)]

(* The H5FD_gds_t of a successful open without line 524, the eof taken    *)
(* from fstat().                                                           *)
OpenedFileEofZero(a, d) ==
    [st |-> "open", fd |-> TRUE, direct_fd |-> TRUE, cf_handle |-> TRUE,
     arrays |-> TRUE, obj |-> TRUE, rdwr |-> a.flags.rdwr,
     num_io_threads |-> a.fapl.threads, io_block_size |-> a.fapl.bs,
     eoa |-> 0, eof |-> 0, pos |-> HADDR_UNDEF, op |-> "OP_UNKNOWN",
     fdpos |-> 0, lock |-> "LOCK_UN"]

(* The H5FD_gds_t a successful open returns (lines 493-545). *)
OpenedFile(a, d) ==
    [st |-> "open", fd |-> TRUE, direct_fd |-> TRUE, cf_handle |-> TRUE,
     arrays |-> TRUE, obj |-> TRUE, rdwr |-> a.flags.rdwr,
     num_io_threads |-> a.fapl.threads, io_block_size |-> a.fapl.bs,
     eoa |-> 0, eof |-> Bytes(d.data), pos |-> HADDR_UNDEF, op |-> "OP_UNKNOWN",
     fdpos |-> 0, lock |-> "LOCK_UN"]

(* The call: H5FD_gds_open(name, flags, fapl_id, maxaddr).  The arguments  *)
(* are drawn where the code first reads them (OpenArgs, OpenRest).         *)
H5FD_gds_open(h) ==
    /\ CanStart(h)
    /\ file[h].st = "none"
    /\ tpc' = [tpc EXCEPT ![h] = "o_check"]
    /\ nops' = [nops EXCEPT !.opens = Min(@ + 1, MaxOpens)]
    /\ UNCHANGED <<partVars, envVars, disk, drvVars, file, tloc, ret, td, buf,
                   pinned, hist>>

(* Line 443: if(!cu_file_driver_opened). *)
OpenCheckDriver(h) ==
    /\ tpc[h] = "o_check"
    /\ tpc' = [tpc EXCEPT ![h] = IF cu_file_driver_opened THEN "o_args" ELSE "o_drv"]
    /\ UNCHANGED <<partVars, envVars, disk, drvVars, file, tloc, ret, ioVars>>

(* Lines 444-455: cuFileDriverOpen(), which succeeds (ok) or not, and the *)
(* flag.                                                                   *)
OpenDriver(h, ok) ==
    /\ tpc[h] = "o_drv"
    /\ IF ~ok
       THEN /\ tpc' = [tpc EXCEPT ![h] = "idle"]
            /\ UNCHANGED tloc
            /\ ret' = [ret EXCEPT ![h] = [fn |-> "open", value |-> "NULL",
                                          failed |-> "driver"]]
            /\ file' = [file EXCEPT ![h] = NoFile]
            /\ UNCHANGED drvVars
       ELSE /\ drv_calls' = [drv_calls EXCEPT !.open_on_open = @ \/ drv_open]
            /\ drv_open' = TRUE
            /\ cu_file_driver_opened' = TRUE
            /\ tpc' = [tpc EXCEPT ![h] = "o_args"]
            /\ UNCHANGED <<cu_file_driver_closed, file, tloc, ret>>
    /\ UNCHANGED <<partVars, envVars, disk, ioVars>>

(* Lines 459-468: the argument checks; a failed one goes to the done:     *)
(* block with nothing acquired.  tloc keeps the arguments of a call that   *)
(* goes on.                                                                *)
OpenArgs(h, name, maxaddr) ==
    /\ tpc[h] = "o_args"
    /\ LET failed == ArgFailure(name, maxaddr)
       IN  IF failed = "none"
           THEN /\ tpc' = [tpc EXCEPT ![h] = "o_file"]
                /\ tloc' = [tloc EXCEPT ![h] = [fn |-> "open", name |-> name,
                                                maxaddr |-> maxaddr]]
                /\ UNCHANGED <<file, ret>>
           ELSE /\ tpc' = [tpc EXCEPT ![h] = "idle"]
                /\ file' = [file EXCEPT ![h] = OpenCleanup(failed)]
                /\ ret' = [ret EXCEPT ![h] = [fn |-> "open", value |-> "NULL",
                                              failed |-> failed, name |-> name,
                                              maxaddr |-> maxaddr]]
                /\ UNCHANGED tloc
    /\ UNCHANGED <<partVars, envVars, disk, drvVars, ioVars>>

(* Lines 470-581: the two descriptors, the registration, the fields, and   *)
(* on failure the done: block.                                             *)
OpenRest(h, flags, fapl, fault) ==
    /\ tpc[h] = "o_file"
    /\ LET a == [flags |-> flags, fapl |-> fapl, fault |-> fault]
           failed == OpenFailure(a, disk)
           d == IF Passed("open", failed) THEN DiskAfterOpen(disk, a.flags) ELSE disk
       IN  /\ disk' = d
           /\ file' = [file EXCEPT ![h] = IF failed = "none" THEN OpenedFile(a, d)
                                          ELSE OpenCleanup(failed)]
           /\ ret' = [ret EXCEPT ![h] = [fn |-> "open",
                                         value |-> IF failed = "none" THEN "file"
                                                   ELSE "NULL",
                                         failed |-> failed, flags |-> flags]]
           /\ hist' = [hist EXCEPT
                         !.w = IF d.data = disk.data THEN @ ELSE NoCall,
                         !.reopened = @ \/ failed = "none"]
    /\ tpc' = [tpc EXCEPT ![h] = "idle"]
    /\ tloc' = [tloc EXCEPT ![h] = NoCall]
    /\ UNCHANGED <<partVars, envVars, drvVars, td, buf, pinned, nops>>

(* What the environment may make fail in a close call. *)
CloseFaults == {"none", "direct", "fd"}

(* The call: H5FD_gds_close(file). *)
H5FD_gds_close(h) ==
    /\ CanStart(h)
    /\ file[h].st = "open"
    /\ tpc' = [tpc EXCEPT ![h] = "c_dereg"]
    /\ UNCHANGED <<partVars, envVars, disk, drvVars, file, tloc, ret, ioVars>>

(* Lines 613-615: cuFileHandleDeregister, if(!cu_file_driver_closed). *)
CloseDeregister(h) ==
    /\ tpc[h] = "c_dereg"
    /\ file' = [file EXCEPT ![h].cf_handle = FALSE]
    /\ tpc' = [tpc EXCEPT ![h] = IF cu_file_driver_closed THEN "c_rest" ELSE "c_drv"]
    /\ UNCHANGED <<partVars, envVars, disk, drvVars, tloc, ret, ioVars>>

(* Lines 616-626: cuFileDriverClose(), which succeeds (ok) or not, and the *)
(* flag.  On failure HGOTO_ERROR(..., NULL, ...) sets ret_value to NULL,   *)
(* which is SUCCEED, and jumps over the rest of the function.              *)
CloseDriver(h, ok) ==
    /\ tpc[h] = "c_drv"
    /\ IF ~ok
       THEN /\ tpc' = [tpc EXCEPT ![h] = "idle"]
            /\ UNCHANGED tloc
            /\ ret' = [ret EXCEPT ![h] = [fn |-> "close", value |-> "SUCCEED",
                                          failed |-> "driver"]]
            /\ file' = [file EXCEPT ![h].st = "none"]
            /\ hist' = [hist EXCEPT !.close_size = Bytes(disk.data)]
            /\ UNCHANGED drvVars
       ELSE /\ drv_calls' = [drv_calls EXCEPT !.close_on_closed = @ \/ ~drv_open]
            /\ drv_open' = FALSE
            /\ cu_file_driver_closed' = TRUE
            /\ tpc' = [tpc EXCEPT ![h] = "c_rest"]
            /\ UNCHANGED <<cu_file_driver_opened, file, tloc, ret, hist>>
    /\ UNCHANGED <<partVars, envVars, disk, td, buf, pinned, nops>>

(* Lines 629-651: the two descriptors, the arrays, the H5FD_gds_t.  The    *)
(* operating system releases a descriptor passed to close() whatever       *)
(* close() returns, and with file->fd the lock placed through it.          *)
CloseRest(h, fault) ==
    /\ tpc[h] = "c_rest"
    /\ LET f == file[h]
       IN  IF fault = "direct"
           THEN /\ file' = [file EXCEPT ![h] = [f EXCEPT !.st = "none",
                                                         !.direct_fd = FALSE]]
                /\ ret' = [ret EXCEPT ![h] = [fn |-> "close", value |-> "FAIL",
                                              failed |-> "direct"]]
           ELSE IF fault = "fd"
           THEN /\ file' = [file EXCEPT ![h] = [f EXCEPT !.st = "none",
                                                         !.direct_fd = FALSE,
                                                         !.arrays = FALSE,
                                                         !.fd = FALSE,
                                                         !.lock = "LOCK_UN"]]
                /\ ret' = [ret EXCEPT ![h] = [fn |-> "close", value |-> "FAIL",
                                              failed |-> "fd"]]
           ELSE /\ file' = [file EXCEPT ![h] = NoFile]
                /\ ret' = [ret EXCEPT ![h] = [fn |-> "close", value |-> "SUCCEED",
                                              failed |-> "none"]]
    /\ hist' = [hist EXCEPT !.close_size = Bytes(disk.data)]
    /\ tpc' = [tpc EXCEPT ![h] = "idle"]
    /\ UNCHANGED <<partVars, envVars, disk, drvVars, tloc, td, buf, pinned, nops>>

(***************************************************************************)
(* Reads and writes: H5FD_gds_read, H5FD_gds_write, the worker threads.    *)
(***************************************************************************)
H5F_addr_defined(addr) == addr # HADDR_UNDEF

SIZE_OVERFLOW(Z) == Z > MAXADDR

(* (HDoff_t)x *)
ToOff(x) ==
    LET u == x % SIZE_MOD
    IN  IF u > MAXADDR THEN u - SIZE_MOD ELSE u

(* REGION_OVERFLOW without its last test, the wrap of A + Z. *)
REGION_OVERFLOW_NoWrap(A, Z) ==
    \/ ADDR_OVERFLOW(A)
    \/ SIZE_OVERFLOW(Z)
    \/ HADDR_UNDEF = ToSizeT(A + Z)

REGION_OVERFLOW(A, Z) ==
    \/ ADDR_OVERFLOW(A)
    \/ SIZE_OVERFLOW(Z)
    \/ HADDR_UNDEF = ToSizeT(A + Z)
    \/ ToOff(A + Z) < ToOff(A)

(* The pattern a write call's buffer holds: one per data call. *)
PatNames == <<"w1", "w2", "w3", "w4", "w5", "w6", "w7", "w8">>

(* cuFileRead(handle, devPtr, n, file_offset, devPtr_offset): its result,  *)
(* the bytes the file holds from file_offset on, at most n.                *)
CuFileReadCount(data, n, file_offset) == Max(0, Min(n, Bytes(data) - file_offset))

(* The buffer after that cuFileRead. *)
CuFileRead(data, b, n, file_offset, devPtr_offset) ==
    Overwrite(b, devPtr_offset, Slice(data, file_offset, n))

(* The file after cuFileWrite(handle, devPtr, n, file_offset, devPtr_offset). *)
CuFileWrite(data, b, n, file_offset, devPtr_offset) ==
    Overwrite(data, file_offset, Slice(b, devPtr_offset, n))

(* The length of the next transfer call without the test of line 144 (and *)
(* 171), size > block_size.                                                *)
ThreadCallSizeWhole(t) == t.size

(* read_thread_fn, write_thread_fn: the length of the next transfer call. *)
ThreadCallSize(t) == IF t.size > t.block_size THEN t.block_size ELSE t.size

(* td after the call without lines 146-147 (and 173-174), the advance of   *)
(* the two offsets.                                                        *)
ThreadAdvanceNoOffset(t) ==
    IF t.size > t.block_size
    THEN [t EXCEPT !.size = @ - t.block_size]
    ELSE [t EXCEPT !.size = 0]

(* read_thread_fn, write_thread_fn: td after the call. *)
ThreadAdvance(t) ==
    IF t.size > t.block_size
    THEN [t EXCEPT !.offset = ToSizeT(@ + t.block_size),
                   !.devPtr_offset = ToSizeT(@ + t.block_size),
                   !.size = @ - t.block_size]
    ELSE [t EXCEPT !.size = 0]

(* The pthread_join loop: every thread created has left its loop. *)
AllButLastJoined(t) == \A i \in 1..(Len(t) - 1) : t[i].size = 0

AllJoined(t) == \A i \in 1..Len(t) : t[i].size = 0

(* A data call may start on an open handle. *)
IoStart(h) ==
    /\ CanStart(h)
    /\ file[h].st = "open"
    /\ nops.data < MaxOps

(* The environment lets a call of the system or of the device library     *)
(* succeed (ok) or, at most MaxFaults times in a run, not.                 *)
MayFail(ok) == ok \/ nops.faults < MaxFaults

Failures(ok) == IF ok THEN nops.faults ELSE nops.faults + 1

(* The done: block without the reset of pos and op (lines 1057-1058 and   *)
(* 1242-1243).                                                             *)
IoDoneNoReset(f, ret_value) == f

(* The done: block of H5FD_gds_read and H5FD_gds_write. *)
IoDone(f, ret_value) ==
    IF ret_value < 0 THEN [f EXCEPT !.pos = HADDR_UNDEF, !.op = "OP_UNKNOWN"] ELSE f

(* The call c on h returns ret_value, the H5FD_gds_t being f before the    *)
(* done: block.                                                            *)
IoReturn(h, c, ret_value, cause, f) ==
    /\ file' = [file EXCEPT ![h] = IoDone(f, ret_value)]
    /\ ret' = [ret EXCEPT ![h] = [fn |-> c.fn, value |-> ret_value, failed |-> cause,
                                  dev |-> c.dev, addr |-> c.addr0, size |-> c.size0,
                                  workers |-> c.workers, sys |-> c.sys]]
    /\ hist' = IF c.fn = "write"
               THEN [hist EXCEPT !.w = IF ret_value >= 0
                                       THEN [addr |-> c.addr0, size |-> c.size0,
                                             dev |-> c.dev, pat |-> c.pat]
                                       ELSE NoCall,
                                 !.reopened = FALSE]
               ELSE hist
    /\ tpc' = [tpc EXCEPT ![h] = "idle"]
    /\ tloc' = [tloc EXCEPT ![h] = NoCall]

(* The process ends at a failed assert. *)
Abort(h) ==
    /\ tpc' = [tpc EXCEPT ![h] = "aborted"]
    /\ UNCHANGED <<file, ret, hist, tloc>>

(* No transfer call of the host path has been made. *)
NoSys == [n |-> 0, at |-> 0, done |-> 0]

(* The locals of a read or write call; sys is the last transfer call of    *)
(* the host path: the bytes it asked for, the file offset it was made at   *)
(* and the buffer position it was given.                                   *)
IoCall(fn, dev, addr, size) ==
    [fn |-> fn, dev |-> dev, addr0 |-> addr, size0 |-> size,
     addr |-> addr, size |-> size, offset |-> addr, workers |-> 0,
     pat |-> PatNames[nops.data + 1], sys |-> NoSys]

(* The floor of lines 939-941 and 1127-1129 stored in the handle: n        *)
(* workers from now on.                                                    *)
PageFloorStored(f, n) == [f EXCEPT !.num_io_threads = n]

(* Lines 909-910, 939-941, 1096-1097 and 1127-1129: io_threads and         *)
(* block_size are locals of the call, copies of the handle's fields; the   *)
(* floor to n workers assigns the local and leaves the H5FD_gds_t f as it  *)
(* is.                                                                     *)
PageFloor(f, n) == f

(* Lines 927-961 and 1114-1149: the device path up to the threads.  The    *)
(* buffer is registered (pin_ok: cuFileBufRegister succeeds; where it does *)
(* not, HGOTO_ERROR(..., NULL, ...) makes the call return NULL, which is   *)
(* SUCCEED) and the request is handed to the threads or to one call.       *)
DevicePath(h, c, pin_ok) ==
    LET f == file[h]
    IN  IF ~pin_ok
        THEN /\ IoReturn(h, c, NULL, "pin", f)
             /\ pinned' = FALSE
             /\ UNCHANGED td
        ELSE /\ pinned' = TRUE
             /\ IF f.num_io_threads > 0
                THEN IF c.size = 0
                     THEN Abort(h) /\ UNCHANGED td
                     ELSE /\ td' = MakeTd(c.size, c.offset, f.num_io_threads,
                                          f.io_block_size)
                          /\ tpc' = [tpc EXCEPT ![h] = "workers"]
                          /\ tloc' = [tloc EXCEPT ![h] =
                                        [c EXCEPT !.workers =
                                            EffectiveThreads(c.size, f.num_io_threads)]]
                          /\ file' = [file EXCEPT ![h] =
                                        PageFloor(f, EffectiveThreads(c.size,
                                                         f.num_io_threads))]
                          /\ UNCHANGED <<ret, hist>>
                ELSE /\ tpc' = [tpc EXCEPT ![h] = "bulk"]
                     /\ tloc' = [tloc EXCEPT ![h] = c]
                     /\ UNCHANGED <<file, ret, hist, td>>

(* Lines 992-998 and 1180-1186, then the loop or, for no bytes, the        *)
(* return: without pread/pwrite the descriptor is repositioned unless the  *)
(* cached position and operation say it stands there (seek_ok: HDlseek     *)
(* succeeds).                                                              *)
HostPath(h, c, op, seek_ok) ==
    LET f == file[h]
        seek == ~have_pread /\ (c.addr # f.pos \/ op # f.op)
        g == IF seek THEN [f EXCEPT !.fdpos = c.addr] ELSE f
    IN  /\ pinned' = FALSE
        /\ UNCHANGED td
        /\ IF seek /\ ~seek_ok
           THEN IoReturn(h, c, FAIL, "seek", f)
           ELSE IF c.size = 0
           THEN IoReturn(h, c, SUCCEED, "none",
                         [g EXCEPT !.pos = c.addr, !.op = op,
                                   !.eof = IF op = "OP_WRITE" /\ c.addr > @
                                           THEN c.addr ELSE @])
           ELSE /\ file' = [file EXCEPT ![h] = g]
                /\ tpc' = [tpc EXCEPT ![h] = "host"]
                /\ tloc' = [tloc EXCEPT ![h] = c]
                /\ UNCHANGED <<ret, hist>>

(* Lines 921-925 and 1108-1112: the check of addr and size, which gives    *)
(* the error the call fails with.                                          *)
IoArgs(addr, size) ==
    IF ~H5F_addr_defined(addr) THEN "H5E_BADVALUE"
    ELSE IF REGION_OVERFLOW(addr, size) THEN "H5E_OVERFLOW"
    ELSE "none"

(* Whether the call gets as far as cuFileBufRegister or HDlseek. *)
FirstEnvCall(h, addr, size, dev, op) ==
    /\ IoArgs(addr, size) = "none"
    /\ dev \/ (~have_pread /\ (addr # file[h].pos \/ op # file[h].op))

(* The call H5FD_gds_read(file, type, dxpl, addr, size, buf), buf a device *)
(* buffer (dev) or a host buffer, up to its first transfer; env_ok: the    *)
(* registration or the seek succeeds.                                      *)
H5FD_gds_read(h, addr, size, dev, env_ok) ==
    /\ IoStart(h)
    /\ env_ok \/ (MayFail(env_ok) /\ FirstEnvCall(h, addr, size, dev, "OP_READ"))
    /\ nops' = [nops EXCEPT !.data = @ + 1, !.faults = Failures(env_ok)]
    /\ buf' = JunkRun(size)
    /\ LET c == IoCall("read", dev, addr, size)
       IN  IF IoArgs(addr, size) # "none"
           THEN IoReturn(h, c, FAIL, "arg", file[h]) /\ pinned' = FALSE /\ UNCHANGED td
           ELSE IF dev
           THEN DevicePath(h, c, env_ok)
           ELSE HostPath(h, c, "OP_READ", env_ok)
    /\ UNCHANGED <<partVars, envVars, disk, drvVars>>

(* The call H5FD_gds_write(file, type, dxpl, addr, size, buf), likewise. *)
H5FD_gds_write(h, addr, size, dev, env_ok) ==
    /\ IoStart(h)
    /\ file[h].rdwr
    /\ env_ok \/ (MayFail(env_ok) /\ FirstEnvCall(h, addr, size, dev, "OP_WRITE"))
    /\ nops' = [nops EXCEPT !.data = @ + 1, !.faults = Failures(env_ok)]
    /\ buf' = PatRun(PatNames[nops.data + 1], size)
    /\ LET c == IoCall("write", dev, addr, size)
       IN  IF IoArgs(addr, size) # "none"
           THEN IoReturn(h, c, FAIL, "arg", file[h]) /\ pinned' = FALSE /\ UNCHANGED td
           ELSE IF dev
           THEN DevicePath(h, c, env_ok)
           ELSE HostPath(h, c, "OP_WRITE", env_ok)
    /\ UNCHANGED <<partVars, envVars, disk, drvVars>>

(* One pass of the loop of read_thread_fn or write_thread_fn in thread i   *)
(* (ok: the transfer call does not fail); assert(ret > 0) ends the process. *)
ThreadStep(h, i, ok) ==
    /\ tpc[h] = "workers"
    /\ i \in 1..Len(td)
    /\ td[i].size > 0
    /\ MayFail(ok)
    /\ nops' = [nops EXCEPT !.faults = Failures(ok)]
    /\ LET t == td[i]
           n == ThreadCallSize(t)
           rd == tloc[h].fn = "read"
           r == IF ~ok THEN -1
                ELSE IF rd THEN CuFileReadCount(disk.data, n, t.offset)
                ELSE n
       IN  IF r <= 0
           THEN Abort(h) /\ UNCHANGED <<td, buf, disk>>
           ELSE /\ td' = [td EXCEPT ![i] = ThreadAdvance(t)]
                /\ IF rd
                   THEN /\ buf' = CuFileRead(disk.data, buf, n, t.offset, t.devPtr_offset)
                        /\ UNCHANGED disk
                   ELSE /\ disk' = [disk EXCEPT !.data =
                                       CuFileWrite(@, buf, n, t.offset, t.devPtr_offset)]
                        /\ UNCHANGED buf
                /\ UNCHANGED <<file, ret, hist, tpc, tloc>>
    /\ UNCHANGED <<partVars, envVars, drvVars, pinned>>

(* Lines 968-970 and 1156-1158: the joins. *)
JoinThreads(h) ==
    /\ tpc[h] = "workers"
    /\ AllJoined(td)
    /\ tpc' = [tpc EXCEPT ![h] = "unpin"]
    /\ UNCHANGED <<partVars, envVars, disk, drvVars, file, tloc, ret, ioVars>>

(* Lines 974-981 and 1162-1169: the one transfer call of a handle with no  *)
(* threads.                                                                *)
BulkTransfer(h, ok) ==
    /\ tpc[h] = "bulk"
    /\ MayFail(ok)
    /\ nops' = [nops EXCEPT !.faults = Failures(ok)]
    /\ LET c == tloc[h]
           rd == c.fn = "read"
           r == IF ~ok THEN -1
                ELSE IF rd THEN CuFileReadCount(disk.data, c.size, c.offset)
                ELSE c.size
       IN  IF r <= 0
           THEN Abort(h) /\ UNCHANGED <<buf, disk>>
           ELSE /\ IF rd
                   THEN /\ buf' = CuFileRead(disk.data, buf, c.size, c.offset, 0)
                        /\ UNCHANGED disk
                   ELSE /\ disk' = [disk EXCEPT !.data =
                                       CuFileWrite(@, buf, c.size, c.offset, 0)]
                        /\ UNCHANGED buf
                /\ tpc' = [tpc EXCEPT ![h] = "unpin"]
                /\ UNCHANGED <<file, ret, hist, tloc>>
    /\ UNCHANGED <<partVars, envVars, drvVars, td, pinned>>

(* Whether the buffer is still registered after cuFileBufDeregister(buf),  *)
(* which succeeds (ok) or not.                                             *)
CuFileBufDeregisterSkipped(ok) == TRUE

CuFileBufDeregister(ok) == ~ok

(* Lines 983-987 and 1171-1175: cuFileBufDeregister (ok: it succeeds;      *)
(* where it does not, the call returns NULL) and the return.               *)
Unpin(h, ok) ==
    /\ tpc[h] = "unpin"
    /\ MayFail(ok)
    /\ nops' = [nops EXCEPT !.faults = Failures(ok)]
    /\ pinned' = CuFileBufDeregister(ok)
    /\ IoReturn(h, tloc[h], IF ok THEN SUCCEED ELSE NULL,
                IF ok THEN "none" ELSE "unpin", file[h])
    /\ UNCHANGED <<partVars, envVars, disk, drvVars, td, buf>>

(* Where the next host transfer takes place: the offset given to pread or  *)
(* pwrite, or the descriptor's position.                                   *)
HostAt(h) == IF have_pread THEN tloc[h].offset ELSE file[h].fdpos

(* bytes_in without the cap of lines 1011-1014 and 1199-1202. *)
BytesInWhole(size) == size

(* bytes_in of lines 1011-1014 and 1199-1202. *)
BytesIn(size) == IF size > H5_POSIX_MAX_IO_BYTES THEN H5_POSIX_MAX_IO_BYTES ELSE size

(* Lines 1016-1024 and 1204-1212: the transfer call the loop makes with    *)
(* the locals c at the file offset at.                                     *)
Syscall(c, at) ==
    [c EXCEPT !.sys = [n |-> BytesIn(c.size), at |-> at, done |-> c.size0 - c.size]]

(* The loop's locals without addr += bytes_read (line 1047) and           *)
(* addr += bytes_wrote (line 1227).                                        *)
HostAdvanceNoAddr(c, k) ==
    [c EXCEPT !.size = @ - k,
              !.offset = IF have_pread THEN @ + k ELSE @]

(* The loop's locals and the descriptor after a transfer of k bytes. *)
HostAdvance(c, k) ==
    [c EXCEPT !.size = @ - k, !.addr = @ + k,
              !.offset = IF have_pread THEN @ + k ELSE @]

FdAdvance(f, k) == IF have_pread THEN f ELSE [f EXCEPT !.fdpos = @ + k]

(* The interrupted transfer call with the do-while of lines 1016-1024 and *)
(* 1204-1212 left out: the -1 is taken for an error.                       *)
HostInterruptedReturns(h) ==
    /\ tpc[h] = "host"
    /\ MayFail(FALSE)
    /\ nops' = [nops EXCEPT !.faults = Failures(FALSE), !.eintr = @ + 1]
    /\ IoReturn(h, tloc[h], FAIL, "io", file[h])
    /\ UNCHANGED <<partVars, envVars, disk, drvVars, td, buf, pinned>>

(* Lines 1016-1024 and 1204-1212: the transfer call is interrupted before  *)
(* it transfers anything (-1, EINTR) and issued again.                     *)
HostInterrupted(h) ==
    /\ tpc[h] = "host"
    /\ MayFail(FALSE)
    /\ nops' = [nops EXCEPT !.faults = Failures(FALSE), !.eintr = @ + 1]
    /\ UNCHANGED <<partVars, envVars, disk, drvVars, file, tpc, tloc, ret, td, buf,
                   pinned, hist>>

(* Lines 1026-1033 and 1214-1221: the transfer call fails. *)
HostError(h) ==
    /\ tpc[h] = "host"
    /\ MayFail(FALSE)
    /\ nops' = [nops EXCEPT !.faults = Failures(FALSE)]
    /\ IoReturn(h, tloc[h], FAIL, "io", file[h])
    /\ UNCHANGED <<partVars, envVars, disk, drvVars, td, buf, pinned>>

(* Lines 1035-1040: HDmemset(buf, 0, size) on the n bytes of the buffer    *)
(* not yet read, which begin at done.                                      *)
ZeroFillSkipped(b, done, n) == b

ZeroFill(b, done, n) == Overwrite(b, done, ZeroRun(n))

(* Lines 1003-1051: HDpread or HDread returns what the file holds at the   *)
(* position, whole or (short) one byte of it; 0 at the end of the file     *)
(* zero-fills the rest of the buffer and ends the loop.                    *)
HostRead(h, short) ==
    /\ tpc[h] = "host"
    /\ tloc[h].fn = "read"
    /\ LET c == tloc[h]
           f == file[h]
           at == HostAt(h)
           bytes_in == BytesIn(c.size)
           avail == Max(0, Min(bytes_in, Bytes(disk.data) - at))
           bytes_read == IF short THEN 1 ELSE avail
           done == c.size0 - c.size
           c2 == HostAdvance(Syscall(c, at), bytes_read)
           f2 == FdAdvance(f, bytes_read)
       IN  /\ short => (avail > 1 /\ MayFail(FALSE))
           /\ IF bytes_read = 0
              THEN /\ buf' = ZeroFill(buf, done, c.size)
                   /\ IoReturn(h, Syscall(c, at), SUCCEED, "none",
                               [f EXCEPT !.pos = c.addr, !.op = "OP_READ"])
              ELSE /\ buf' = Overwrite(buf, done, Slice(disk.data, at, bytes_read))
                   /\ IF c2.size = 0
                      THEN IoReturn(h, c2, SUCCEED, "none",
                                    [f2 EXCEPT !.pos = c2.addr, !.op = "OP_READ"])
                      ELSE /\ file' = [file EXCEPT ![h] = f2]
                           /\ tloc' = [tloc EXCEPT ![h] = c2]
                           /\ UNCHANGED <<tpc, ret, hist>>
    /\ nops' = [nops EXCEPT !.faults = Failures(~short)]
    /\ UNCHANGED <<partVars, envVars, disk, drvVars, td, pinned>>

(* Lines 1191-1235: HDpwrite or HDwrite stores bytes_in bytes, or (short)  *)
(* one byte of them.                                                       *)
HostWrite(h, short) ==
    /\ tpc[h] = "host"
    /\ tloc[h].fn = "write"
    /\ LET c == tloc[h]
           f == file[h]
           at == HostAt(h)
           bytes_in == BytesIn(c.size)
           bytes_wrote == IF short THEN 1 ELSE bytes_in
           done == c.size0 - c.size
           c2 == HostAdvance(Syscall(c, at), bytes_wrote)
           f2 == FdAdvance(f, bytes_wrote)
       IN  /\ short => (bytes_in > 1 /\ MayFail(FALSE))
           /\ disk' = [disk EXCEPT !.data =
                          Overwrite(@, at, Slice(buf, done, bytes_wrote))]
           /\ IF c2.size = 0
              THEN IoReturn(h, c2, SUCCEED, "none",
                            [f2 EXCEPT !.pos = c2.addr, !.op = "OP_WRITE",
                                       !.eof = IF c2.addr > @ THEN c2.addr ELSE @])
              ELSE /\ file' = [file EXCEPT ![h] = f2]
                   /\ tloc' = [tloc EXCEPT ![h] = c2]
                   /\ UNCHANGED <<tpc, ret, hist>>
    /\ nops' = [nops EXCEPT !.faults = Failures(~short)]
    /\ UNCHANGED <<partVars, envVars, drvVars, td, buf, pinned>>

(***************************************************************************)
(* The address-space tracker: set_eoa, get_eoa, get_eof, truncate.         *)
(***************************************************************************)
H5FD_gds_get_eoa(h) == file[h].eoa

H5FD_gds_get_eof(h) == file[h].eof

H5FD_gds_set_eoa(h, addr) ==
    /\ CanStart(h)
    /\ file[h].st = "open"
    /\ nops.eoas < MaxSetEoa
    /\ nops' = [nops EXCEPT !.eoas = @ + 1]
    /\ file' = [file EXCEPT ![h].eoa = addr]
    /\ ret' = [ret EXCEPT ![h] = [fn |-> "set_eoa", value |-> SUCCEED, addr |-> addr,
                                  eof0 |-> file[h].eof]]
    /\ UNCHANGED <<partVars, envVars, disk, drvVars, tpc, tloc, td, buf, pinned, hist>>

(* The file after HDftruncate(fd, n). *)
Ftruncate(data, n) == Norm(Take(data, n) \o ZeroRun(n - Bytes(data)))

(* The test of line 1274 left out: the file is always taken to need the    *)
(* HDftruncate call.                                                       *)
H5F_addr_eqNever(a, b) == FALSE

(* Line 1274: H5F_addr_eq(file->eoa, file->eof). *)
H5F_addr_eq(a, b) == a = b

(* H5FD_gds_truncate (ok: HDftruncate succeeds; it does not on a           *)
(* descriptor opened read-only).                                           *)
H5FD_gds_truncate(h, ok) ==
    /\ IoStart(h)
    /\ ok \/ (MayFail(ok) /\ ~H5F_addr_eq(file[h].eoa, file[h].eof) /\ file[h].rdwr)
    /\ nops' = [nops EXCEPT !.data = @ + 1, !.faults = Failures(ok)]
    /\ LET f == file[h]
           r == [fn |-> "truncate", eoa0 |-> f.eoa, eof0 |-> f.eof,
                 pos0 |-> f.pos, op0 |-> f.op,
                 after_set_eoa |-> ret[h].fn = "set_eoa"]
       IN  IF ~H5F_addr_eq(f.eoa, f.eof)
           THEN IF ~ok \/ ~f.rdwr
                THEN /\ ret' = [ret EXCEPT ![h] =
                                  r @@ [value |-> FAIL, failed |-> "ftruncate"]]
                     /\ UNCHANGED <<file, disk, hist>>
                ELSE /\ disk' = [disk EXCEPT !.data = Ftruncate(@, f.eoa)]
                     /\ file' = [file EXCEPT ![h] =
                                    [f EXCEPT !.eof = f.eoa, !.pos = HADDR_UNDEF,
                                              !.op = "OP_UNKNOWN"]]
                     /\ ret' = [ret EXCEPT ![h] =
                                  r @@ [value |-> SUCCEED, failed |-> "none"]]
                     /\ hist' = [hist EXCEPT !.w = NoCall]
           ELSE /\ ret' = [ret EXCEPT ![h] =
                             r @@ [value |-> SUCCEED, failed |-> "none"]]
                /\ UNCHANGED <<file, disk, hist>>
    /\ UNCHANGED <<partVars, envVars, drvVars, tpc, tloc, td, buf, pinned>>

(***************************************************************************)
(* Advisory locks: H5FD_gds_lock, H5FD_gds_unlock.                         *)
(***************************************************************************)

(* H5FD_gds_lock without LOCK_NB in the flags of line 1347. *)
LOCK_NB_Absent == FALSE

(* Line 1347: lock_flags | LOCK_NB. *)
LOCK_NB == TRUE

(* Whether a lock of kind op through file->fd of h conflicts with a lock   *)
(* held through the descriptor of another handle: an exclusive lock        *)
(* conflicts with every lock, a shared lock with an exclusive one.         *)
FlockConflict(h, op) ==
    \E g \in Handles \ {h} :
        /\ file[g].lock # "LOCK_UN"
        /\ op = "LOCK_EX" \/ file[g].lock = "LOCK_EX"

(* flock(file->fd, op) with LOCK_NB: the errno it sets, "none" when it     *)
(* returns 0.                                                              *)
HDflock(h, op) ==
    IF ~can_flock THEN "ENOSYS"
    ELSE IF op # "LOCK_UN" /\ FlockConflict(h, op) THEN "EWOULDBLOCK"
    ELSE "none"

(* Lines 1348-1351 and 1383-1386: the message pushed on the error stack    *)
(* with the errno.                                                         *)
LockMessage(errno, fn) ==
    IF errno = "ENOSYS" THEN "file locking disabled on this file system"
    ELSE IF fn = "lock" THEN "unable to lock file"
    ELSE "unable to unlock file"

(* Lines 1334-1358.  The call returns at once whatever locks are held;     *)
(* without LOCK_NB it would wait in flock() for a conflicting lock to go.  *)
H5FD_gds_lock(h, rw) ==
    /\ CanStart(h)
    /\ file[h].st = "open"
    /\ LET lock_flags == IF rw THEN "LOCK_EX" ELSE "LOCK_SH"
           errno == HDflock(h, lock_flags)
           held == [g \in Handles \ {h} |-> file[g].lock]
       IN  IF errno = "EWOULDBLOCK" /\ ~LOCK_NB
           THEN /\ tpc' = [tpc EXCEPT ![h] = "blocked"]
                /\ UNCHANGED <<file, ret>>
           ELSE /\ file' = [file EXCEPT ![h].lock =
                                IF errno = "none" THEN lock_flags ELSE @]
                /\ ret' = [ret EXCEPT ![h] =
                              [fn |-> "lock", rw |-> rw, held |-> held,
                               value |-> IF errno = "none" THEN SUCCEED ELSE FAIL,
                               errno |-> errno,
                               msg |-> LockMessage(errno, "lock")]]
                /\ UNCHANGED tpc
    /\ UNCHANGED <<partVars, envVars, disk, drvVars, tloc, ioVars>>

(* Lines 1372-1391. *)
H5FD_gds_unlock(h) ==
    /\ CanStart(h)
    /\ file[h].st = "open"
    /\ LET errno == HDflock(h, "LOCK_UN")
       IN  /\ file' = [file EXCEPT ![h].lock =
                           IF errno = "none" THEN "LOCK_UN" ELSE @]
           /\ ret' = [ret EXCEPT ![h] =
                         [fn |-> "unlock",
                          value |-> IF errno = "none" THEN SUCCEED ELSE FAIL,
                          errno |-> errno,
                          msg |-> LockMessage(errno, "unlock")]]
    /\ UNCHANGED <<partVars, envVars, disk, drvVars, tpc, tloc, ioVars>>

DrvIdle ==
    /\ drv_open = FALSE
    /\ cu_file_driver_opened = FALSE
    /\ cu_file_driver_closed = FALSE
    /\ drv_calls = [open_on_open |-> FALSE, close_on_closed |-> FALSE]

HandlesIdle ==
    /\ file = [h \in Handles |-> NoFile]
    /\ tpc = [h \in Handles |-> "idle"]
    /\ tloc = [h \in Handles |-> NoCall]
    /\ ret = [h \in Handles |-> NoCall]

IoIdle ==
    /\ td = <<>>
    /\ buf = <<>>
    /\ pinned = FALSE
    /\ hist = [w |-> NoCall, reopened |-> FALSE, close_size |-> -1]
    /\ nops = [data |-> 0, opens |-> 0, faults |-> 0, eoas |-> 0, eintr |-> 0]

(***************************************************************************)
(* SpecDrv: the handles opened and closed over the process-wide driver,    *)
(* the calls issued one at a time (serial) or concurrently.                *)
(***************************************************************************)
DrvFapls ==
    {[kind |-> "default", threads |-> 0, bs |-> 0],
     [kind |-> "invalid", threads |-> 0, bs |-> 0]}

DrvFlags == {f \in OpenFlags : f.rdwr /\ ~f.creat}

InitDrv ==
    /\ PartIdle
    /\ serial \in BOOLEAN
    /\ have_pread = TRUE
    /\ can_flock = TRUE
    /\ disk = [exists |-> TRUE, data |-> <<>>]
    /\ DrvIdle
    /\ HandlesIdle
    /\ IoIdle

NextDrv ==
    \E h \in Handles :
        \/ H5FD_gds_open(h)
        \/ OpenCheckDriver(h)
        \/ \E ok \in BOOLEAN : OpenDriver(h, ok)
        \/ OpenArgs(h, "f", MAXADDR)
        \/ \E fapl \in DrvFapls, flags \in DrvFlags, fault \in OpenFaults :
              OpenRest(h, flags, fapl, fault)
        \/ H5FD_gds_close(h)
        \/ CloseDeregister(h)
        \/ \E ok \in BOOLEAN : CloseDriver(h, ok)
        \/ \E fault \in CloseFaults : CloseRest(h, fault)

SpecDrv == InitDrv /\ [][NextDrv]_vars

(***************************************************************************)
(* Spec: one handle on one file.                                           *)
(***************************************************************************)
IoThreads == 2

IoFapls ==
    {[kind |-> "default", threads |-> 0, bs |-> 0],
     [kind |-> "invalid", threads |-> 0, bs |-> 0],
     [kind |-> "plist", threads |-> IoThreads, bs |-> PageSize]}

IoMaxAddrs == {0, HADDR_UNDEF, MAXADDR + 1, MAXADDR}

IoAddrs == {0, PageSize, HADDR_UNDEF}

IoSizes == {10, 2 * PageSize + 1}

EoaValues == {10, PageSize + 10}

Init ==
    /\ PartIdle
    /\ serial = TRUE
    /\ have_pread \in BOOLEAN
    /\ can_flock = TRUE
    /\ disk \in {[exists |-> FALSE, data |-> <<>>],
                 [exists |-> TRUE, data |-> PatRun("old", PageSize + 10)]}
    /\ DrvIdle
    /\ HandlesIdle
    /\ IoIdle

Next ==
    \/ nops.opens < IoOpens /\ H5FD_gds_open(1)
    \/ OpenCheckDriver(1)
    \/ \E ok \in BOOLEAN : OpenDriver(1, ok)
    \/ \E name \in {"", "f"}, maxaddr \in IoMaxAddrs : OpenArgs(1, name, maxaddr)
    \/ \E flags \in OpenFlags, fapl \in IoFapls, fault \in OpenFaults :
          OpenRest(1, flags, fapl, fault)
    \/ H5FD_gds_close(1)
    \/ CloseDeregister(1)
    \/ \E ok \in BOOLEAN : CloseDriver(1, ok)
    \/ \E fault \in CloseFaults : CloseRest(1, fault)
    \/ \E addr \in EoaValues : H5FD_gds_set_eoa(1, addr)
    \/ nops.data < IoOps /\ \E ok \in BOOLEAN : H5FD_gds_truncate(1, ok)
    \/ nops.data < IoOps /\
          \E addr \in IoAddrs, size \in IoSizes, dev \in BOOLEAN, ok \in BOOLEAN :
             H5FD_gds_read(1, addr, size, dev, ok)
    \/ nops.data < IoOps /\
          \E addr \in IoAddrs, size \in IoSizes, dev \in BOOLEAN, ok \in BOOLEAN :
             H5FD_gds_write(1, addr, size, dev, ok)
    \/ \E i \in 1..IoThreads, ok \in BOOLEAN : ThreadStep(1, i, ok)
    \/ JoinThreads(1)
    \/ \E ok \in BOOLEAN : BulkTransfer(1, ok)
    \/ \E ok \in BOOLEAN : Unpin(1, ok)
    \/ HostInterrupted(1)
    \/ HostError(1)
    \/ \E short \in BOOLEAN : HostRead(1, short)
    \/ \E short \in BOOLEAN : HostWrite(1, short)

Spec == Init /\ [][Next]_vars

(***************************************************************************)
(* SpecReopen: one handle on a file that is created, written, closed and   *)
(* opened again.                                                           *)
(***************************************************************************)
ReopenFlags == {f \in OpenFlags : f.trunc \/ ~f.creat}

ReopenFapls == {f \in IoFapls : f.kind # "invalid"}

InitReopen ==
    /\ PartIdle
    /\ serial = TRUE
    /\ have_pread \in BOOLEAN
    /\ can_flock = TRUE
    /\ disk = [exists |-> FALSE, data |-> <<>>]
    /\ DrvIdle
    /\ HandlesIdle
    /\ IoIdle

NextReopen ==
    \/ nops.opens < MaxOpens /\ H5FD_gds_open(1)
    \/ OpenCheckDriver(1)
    \/ \E ok \in BOOLEAN : OpenDriver(1, ok)
    \/ OpenArgs(1, "f", MAXADDR)
    \/ \E flags \in ReopenFlags, fapl \in ReopenFapls : OpenRest(1, flags, fapl, "none")
    \/ H5FD_gds_close(1)
    \/ CloseDeregister(1)
    \/ \E ok \in BOOLEAN : CloseDriver(1, ok)
    \/ \E fault \in CloseFaults : CloseRest(1, fault)
    \/ H5FD_gds_set_eoa(1, PageSize)
    \/ \E ok \in BOOLEAN : H5FD_gds_truncate(1, ok)
    \/ \E dev \in BOOLEAN, ok \in BOOLEAN : H5FD_gds_read(1, 0, PageSize, dev, ok)
    \/ \E dev \in BOOLEAN, ok \in BOOLEAN : H5FD_gds_write(1, 0, PageSize, dev, ok)
    \/ \E i \in 1..IoThreads, ok \in BOOLEAN : ThreadStep(1, i, ok)
    \/ JoinThreads(1)
    \/ \E ok \in BOOLEAN : BulkTransfer(1, ok)
    \/ \E ok \in BOOLEAN : Unpin(1, ok)
    \/ HostInterrupted(1)
    \/ HostError(1)
    \/ \E short \in BOOLEAN : HostRead(1, short)
    \/ \E short \in BOOLEAN : HostWrite(1, short)

SpecReopen == InitReopen /\ [][NextReopen]_vars

InitPartSpec ==
    /\ InitPart
    /\ serial = TRUE
    /\ have_pread = TRUE
    /\ can_flock = TRUE
    /\ disk = [exists |-> FALSE, data |-> <<>>]
    /\ DrvIdle
    /\ HandlesIdle
    /\ IoIdle

NextPart == PartitionRequest

SpecPart == InitPartSpec /\ [][NextPart]_vars

(***************************************************************************)
(* SpecPure: the functions without side effects, H5FD_gds_cmp and          *)
(* is_device_pointer, each applied to arguments drawn in the initial       *)
(* state.                                                                  *)
(***************************************************************************)
MaxDevice == 1

MaxInode == 2

(* Lines 538-539: the identity H5FD_gds_open stores in the H5FD_gds_t,     *)
(* st_dev and st_ino of the fstat() of the file it opened.  Two handles on *)
(* the same physical file hold the same pair, handles on different files   *)
(* hold different pairs.                                                   *)
FileIds == [device : 0..MaxDevice, inode : 0..MaxInode]

(* H5FD_gds_cmp with lines 700-701, the comparison of the inodes, left     *)
(* out.                                                                    *)
CmpDeviceOnly(f1, f2) ==
    IF f1.device < f2.device THEN -1
    ELSE IF f1.device > f2.device THEN 1
    ELSE 0

(* Lines 670-706, the build without H5_HAVE_WIN32_API and with             *)
(* H5_DEV_T_IS_SCALAR.                                                     *)
H5FD_gds_cmp(f1, f2) ==
    IF f1.device < f2.device THEN -1
    ELSE IF f1.device > f2.device THEN 1
    ELSE IF f1.inode < f2.inode THEN -1
    ELSE IF f1.inode > f2.inode THEN 1
    ELSE 0

(* Three handles compared pairwise. *)
Compare ==
    /\ c_pc = "request"
    /\ c_req.fn = "cmp"
    /\ c_ret' = [r12 |-> H5FD_gds_cmp(c_req.f1, c_req.f2),
                 r21 |-> H5FD_gds_cmp(c_req.f2, c_req.f1),
                 r23 |-> H5FD_gds_cmp(c_req.f2, c_req.f3),
                 r13 |-> H5FD_gds_cmp(c_req.f1, c_req.f3)]
    /\ c_pc' = "returned"
    /\ UNCHANGED <<p_pc, p_req, p_td, c_req, envVars, disk, drvVars, hVars, ioVars>>

(* The values a pointer read from memory can have: NULL and one other. *)
Pointers == {NULL, 1}

(* Lines 863-876.  cudaPointerGetAttributes(&attributes, ptr) fills in     *)
(* attributes when it succeeds (query_ok): devicePointer is the device     *)
(* address of ptr, NULL for memory the device cannot reach.  Its return    *)
(* value is discarded.  When it fails, attributes, a local without         *)
(* initializer, holds what the stack held (stack), and line 870 reads it.  *)
is_device_pointer(resident, query_ok, stack) ==
    LET devicePointer == IF query_ok
                         THEN (IF resident THEN 1 ELSE NULL)
                         ELSE stack
    IN  IF devicePointer # NULL THEN 1 ELSE 0

(* Lines 927 and 1115: if(is_device_pointer(buf)) selects the device path, *)
(* the host path otherwise.                                                *)
Classify ==
    /\ c_pc = "request"
    /\ c_req.fn = "is_device_pointer"
    /\ c_ret' = is_device_pointer(c_req.resident, c_req.query_ok, c_req.stack)
    /\ c_pc' = "returned"
    /\ UNCHANGED <<p_pc, p_req, p_td, c_req, envVars, disk, drvVars, hVars, ioVars>>

(* Addresses and sizes at the edges of the offset type and of the address  *)
(* type, and in between: pairs within MAXADDR, pairs whose sum passes       *)
(* MAXADDR, pairs whose sum is HADDR_UNDEF and pairs whose sum wraps.       *)
RegionAddrs ==
    {0, 1, PageSize, MAXADDR - PageSize, MAXADDR - 1, MAXADDR, MAXADDR + 1,
     MAXADDR + PageSize, HADDR_UNDEF - 1, HADDR_UNDEF}

RegionSizes ==
    {0, 1, 2, PageSize, PageSize + 1, MAXADDR - PageSize, MAXADDR - 1, MAXADDR,
     MAXADDR + 1, MAXADDR + 2, HADDR_UNDEF - PageSize, HADDR_UNDEF - 1, HADDR_UNDEF}

(* The check of addr and size that H5FD_gds_read and H5FD_gds_write begin  *)
(* with, applied to one pair.                                              *)
CheckArgs ==
    /\ c_pc = "request"
    /\ c_req.fn = "args"
    /\ c_ret' = [error |-> IoArgs(c_req.addr, c_req.size)]
    /\ c_pc' = "returned"
    /\ UNCHANGED <<p_pc, p_req, p_td, c_req, envVars, disk, drvVars, hVars, ioVars>>

InitPure ==
    /\ p_pc = "idle"
    /\ p_req = [size |-> 0, offset |-> 0, io_threads |-> 0, io_block_size |-> 0]
    /\ p_td = <<>>
    /\ c_pc = "request"
    /\ c_req \in [fn : {"cmp"}, f1 : FileIds, f2 : FileIds, f3 : FileIds]
                 \cup [fn : {"is_device_pointer"}, resident : BOOLEAN,
                       query_ok : BOOLEAN, stack : Pointers]
                 \cup [fn : {"args"}, addr : RegionAddrs, size : RegionSizes]
    /\ c_ret = 0
    /\ serial = TRUE
    /\ have_pread = TRUE
    /\ can_flock = TRUE
    /\ disk = [exists |-> FALSE, data |-> <<>>]
    /\ DrvIdle
    /\ HandlesIdle
    /\ IoIdle

NextPure == Compare \/ Classify \/ CheckArgs

SpecPure == InitPure /\ [][NextPure]_vars

(***************************************************************************)
(* SpecLock: two handles on one file, on a file system that supports       *)
(* flock() or on one that does not, opened, locked, unlocked and closed.   *)
(***************************************************************************)
InitLock ==
    /\ PartIdle
    /\ serial = TRUE
    /\ have_pread = TRUE
    /\ can_flock \in BOOLEAN
    /\ disk = [exists |-> TRUE, data |-> <<>>]
    /\ DrvIdle
    /\ HandlesIdle
    /\ IoIdle

NextLock ==
    \E h \in Handles :
        \/ H5FD_gds_open(h)
        \/ OpenCheckDriver(h)
        \/ OpenDriver(h, TRUE)
        \/ OpenArgs(h, "f", MAXADDR)
        \/ \E flags \in DrvFlags : OpenRest(h, flags, [kind |-> "default", threads |-> 0, bs |-> 0], "none")
        \/ H5FD_gds_close(h)
        \/ CloseDeregister(h)
        \/ CloseDriver(h, TRUE)
        \/ CloseRest(h, "none")
        \/ \E rw \in BOOLEAN : H5FD_gds_lock(h, rw)
        \/ H5FD_gds_unlock(h)

SpecLock == InitLock /\ [][NextLock]_vars

(***************************************************************************)
(* SpecArgs: one handle, the arguments of open, read and write drawn from  *)
(* the valid ones and from each kind of invalid one.                       *)
(***************************************************************************)
ArgAddrs == {0, MAXADDR - 5, HADDR_UNDEF}

ArgSizes == {10, MAXADDR + 1}

ArgFapls == {f \in IoFapls : f.kind # "invalid"}

InitArgs ==
    /\ PartIdle
    /\ serial = TRUE
    /\ have_pread \in BOOLEAN
    /\ can_flock = TRUE
    /\ disk = [exists |-> TRUE, data |-> PatRun("old", PageSize + 10)]
    /\ DrvIdle
    /\ HandlesIdle
    /\ IoIdle

NextArgs ==
    \/ nops.opens < MaxOpens /\ H5FD_gds_open(1)
    \/ OpenCheckDriver(1)
    \/ \E ok \in BOOLEAN : OpenDriver(1, ok)
    \/ \E name \in {"", "f"}, maxaddr \in IoMaxAddrs : OpenArgs(1, name, maxaddr)
    \/ \E flags \in DrvFlags, fapl \in ArgFapls : OpenRest(1, flags, fapl, "none")
    \/ H5FD_gds_set_eoa(1, PageSize)
    \/ nops.data < IoOps /\
          \E addr \in ArgAddrs, size \in ArgSizes, dev \in BOOLEAN, ok \in BOOLEAN :
             H5FD_gds_read(1, addr, size, dev, ok)
    \/ nops.data < IoOps /\
          \E addr \in ArgAddrs, size \in ArgSizes, dev \in BOOLEAN, ok \in BOOLEAN :
             H5FD_gds_write(1, addr, size, dev, ok)
    \/ \E i \in 1..IoThreads, ok \in BOOLEAN : ThreadStep(1, i, ok)
    \/ JoinThreads(1)
    \/ \E ok \in BOOLEAN : BulkTransfer(1, ok)
    \/ \E ok \in BOOLEAN : Unpin(1, ok)
    \/ HostInterrupted(1)
    \/ HostError(1)
    \/ \E short \in BOOLEAN : HostRead(1, short)
    \/ \E short \in BOOLEAN : HostWrite(1, short)

SpecArgs == InitArgs /\ [][NextArgs]_vars

(***************************************************************************)
(* SpecWorker: the loop of one worker thread, read_thread_fn or            *)
(* write_thread_fn, on a thread_data_t drawn in the initial state, with    *)
(* the transfer calls it issues recorded in c_ret beside the thread's td.   *)
(* Every call transfers what it is asked to.  SpecWorkerLive is the same with the thread scheduled until   *)
(* it ends.                                                                *)
(***************************************************************************)
WorkerSizes ==
    {1, PageSize - 1, PageSize, PageSize + 1, 2 * PageSize, 2 * PageSize + 1,
     3 * PageSize + 2}

(* td->block_size: none, one page, two pages. *)
WorkerBlockSizes == {0, PageSize, 2 * PageSize}

WorkerOffsets == {0, PageSize}

(* One pass of the loop of lines 143-156 (read) and 170-183 (write): the   *)
(* call, the update of td, and assert(ret > 0), which ends the process.    *)
ThreadPass ==
    /\ c_pc = "loop"
    /\ c_ret.t.size > 0
    /\ LET t == c_ret.t
           n == ThreadCallSize(t)
           r == n
           call == [n |-> n, offset |-> t.offset, devPtr_offset |-> t.devPtr_offset]
       IN  /\ c_ret' = [t |-> ThreadAdvance(t), calls |-> Append(c_ret.calls, call)]
           /\ c_pc' = IF r > 0 THEN "loop" ELSE "aborted"
    /\ UNCHANGED <<p_pc, p_req, p_td, c_req, envVars, disk, drvVars, hVars, ioVars>>

(* pthread_create(..., &read_thread_fn, &td[ii]) and its write twin. *)
ThreadStart ==
    /\ c_pc = "request"
    /\ c_req.fn \in {"read_thread_fn", "write_thread_fn"}
    /\ c_pc' = "loop"
    /\ UNCHANGED <<p_pc, p_req, p_td, c_req, c_ret, envVars, disk, drvVars, hVars, ioVars>>

read_thread_fn == c_req.fn = "read_thread_fn" /\ ThreadPass

write_thread_fn == c_req.fn = "write_thread_fn" /\ ThreadPass

(* while(td->size > 0) is false: return NULL. *)
ThreadReturn ==
    /\ c_pc = "loop"
    /\ c_ret.t.size = 0
    /\ c_pc' = "returned"
    /\ UNCHANGED <<p_pc, p_req, p_td, c_req, c_ret, envVars, disk, drvVars, hVars, ioVars>>

InitWorker ==
    /\ p_pc = "idle"
    /\ p_req = [size |-> 0, offset |-> 0, io_threads |-> 0, io_block_size |-> 0]
    /\ p_td = <<>>
    /\ c_pc = "request"
    /\ c_req \in [fn : {"read_thread_fn", "write_thread_fn"},
                  td : [size : WorkerSizes, offset : WorkerOffsets,
                        devPtr_offset : WorkerOffsets,
                        block_size : WorkerBlockSizes]]
    /\ c_ret = [t |-> c_req.td, calls |-> <<>>]
    /\ serial = TRUE
    /\ have_pread = TRUE
    /\ can_flock = TRUE
    /\ disk = [exists |-> FALSE, data |-> <<>>]
    /\ DrvIdle
    /\ HandlesIdle
    /\ IoIdle

NextWorker == ThreadStart \/ read_thread_fn \/ write_thread_fn \/ ThreadReturn

SpecWorker == InitWorker /\ [][NextWorker]_vars

SpecWorkerLive == SpecWorker /\ WF_vars(NextWorker)

(***************************************************************************)
(* SpecSeek: one handle in a build without H5_HAVE_PREADWRITE, read,       *)
(* written and truncated at addresses that follow one another, so that the *)
(* HDlseek of lines 994-997 and 1182-1185 is both made and skipped.        *)
(***************************************************************************)
SeekAddrs == {0, 10}

SeekSize == 10

SeekFapl == [kind |-> "default", threads |-> 0, bs |-> 0]

InitSeek ==
    /\ PartIdle
    /\ serial = TRUE
    /\ have_pread = FALSE
    /\ can_flock = TRUE
    /\ disk = [exists |-> TRUE, data |-> PatRun("old", PageSize + 10)]
    /\ DrvIdle
    /\ HandlesIdle
    /\ IoIdle

NextSeek ==
    \/ nops.opens < IoOpens /\ H5FD_gds_open(1)
    \/ OpenCheckDriver(1)
    \/ OpenDriver(1, TRUE)
    \/ OpenArgs(1, "f", MAXADDR)
    \/ \E flags \in DrvFlags : OpenRest(1, flags, SeekFapl, "none")
    \/ \E addr \in EoaValues : H5FD_gds_set_eoa(1, addr)
    \/ \E ok \in BOOLEAN : H5FD_gds_truncate(1, ok)
    \/ \E addr \in SeekAddrs, dev \in BOOLEAN, ok \in BOOLEAN :
          H5FD_gds_read(1, addr, SeekSize, dev, ok)
    \/ \E addr \in SeekAddrs, dev \in BOOLEAN, ok \in BOOLEAN :
          H5FD_gds_write(1, addr, SeekSize, dev, ok)
    \/ \E ok \in BOOLEAN : BulkTransfer(1, ok)
    \/ \E ok \in BOOLEAN : Unpin(1, ok)
    \/ HostInterrupted(1)
    \/ HostError(1)
    \/ \E short \in BOOLEAN : HostRead(1, short)
    \/ \E short \in BOOLEAN : HostWrite(1, short)

SpecSeek == InitSeek /\ [][NextSeek]_vars

(***************************************************************************)
(* SpecHost: one handle read and written on the host path alone, with and  *)
(* without pread/pwrite, its system calls succeeding, falling short,       *)
(* interrupted or failing.  SpecHostLive is the same with the loop of the  *)
(* call in progress running on: a system call that is issued again and     *)
(* again is not interrupted for ever.                                      *)
(***************************************************************************)
HostAddrs == {0, PageSize}

InitHost ==
    /\ PartIdle
    /\ serial = TRUE
    /\ have_pread \in BOOLEAN
    /\ can_flock = TRUE
    /\ disk = [exists |-> TRUE, data |-> PatRun("old", PageSize + 10)]
    /\ DrvIdle
    /\ HandlesIdle
    /\ IoIdle

NextHost ==
    \/ nops.opens < IoOpens /\ H5FD_gds_open(1)
    \/ OpenCheckDriver(1)
    \/ OpenDriver(1, TRUE)
    \/ OpenArgs(1, "f", MAXADDR)
    \/ \E flags \in DrvFlags : OpenRest(1, flags, SeekFapl, "none")
    \/ nops.data < IoOps /\
          \E addr \in HostAddrs, size \in IoSizes, ok \in BOOLEAN :
             H5FD_gds_read(1, addr, size, FALSE, ok)
    \/ nops.data < IoOps /\
          \E addr \in HostAddrs, size \in IoSizes, ok \in BOOLEAN :
             H5FD_gds_write(1, addr, size, FALSE, ok)
    \/ HostInterrupted(1)
    \/ HostError(1)
    \/ \E short \in BOOLEAN : HostRead(1, short)
    \/ \E short \in BOOLEAN : HostWrite(1, short)

SpecHost == InitHost /\ [][NextHost]_vars

(* A pass of the host loop that transfers bytes or ends the call. *)
HostProgress ==
    /\ tpc[1] = "host"
    /\ tpc'[1] = "idle" \/ tloc'[1].size < tloc[1].size

(* Weak fairness of HostProgress, which is enabled exactly while the call  *)
(* is in its loop.                                                         *)
SpecHostLive ==
    SpecHost /\ ([]<>(tpc[1] # "host") \/ []<><<HostProgress>>_vars)

(***************************************************************************)
(* SpecConfig: one handle opened with two worker threads or with none and  *)
(* then read, written, truncated, locked and unlocked, its end-of-address  *)
(* set, small requests and large ones in either order, every call of the   *)
(* environment succeeding.                                                 *)
(***************************************************************************)
ConfigFapls == {f \in IoFapls : f.kind # "invalid"}

ConfigAddrs == {0, PageSize}

InitConfig ==
    /\ PartIdle
    /\ serial = TRUE
    /\ have_pread = TRUE
    /\ can_flock = TRUE
    /\ disk = [exists |-> TRUE, data |-> PatRun("old", PageSize + 10)]
    /\ DrvIdle
    /\ HandlesIdle
    /\ IoIdle

NextConfig ==
    \/ nops.opens < IoOpens /\ H5FD_gds_open(1)
    \/ OpenCheckDriver(1)
    \/ OpenDriver(1, TRUE)
    \/ OpenArgs(1, "f", MAXADDR)
    \/ \E flags \in DrvFlags, fapl \in ConfigFapls : OpenRest(1, flags, fapl, "none")
    \/ \E addr \in EoaValues : H5FD_gds_set_eoa(1, addr)
    \/ nops.data < IoOps /\ H5FD_gds_truncate(1, TRUE)
    \/ nops.data < IoOps /\
          \E addr \in ConfigAddrs, size \in IoSizes, dev \in BOOLEAN :
             H5FD_gds_read(1, addr, size, dev, TRUE)
    \/ nops.data < IoOps /\
          \E addr \in ConfigAddrs, size \in IoSizes, dev \in BOOLEAN :
             H5FD_gds_write(1, addr, size, dev, TRUE)
    \/ \E i \in 1..IoThreads : ThreadStep(1, i, TRUE)
    \/ JoinThreads(1)
    \/ BulkTransfer(1, TRUE)
    \/ Unpin(1, TRUE)
    \/ HostRead(1, FALSE)
    \/ HostWrite(1, FALSE)
    \/ \E rw \in BOOLEAN : H5FD_gds_lock(1, rw)
    \/ H5FD_gds_unlock(1)

SpecConfig == InitConfig /\ [][NextConfig]_vars

(***************************************************************************)
(* C1.  For every request with size > 0 and io_threads > 0 on the device   *)
(* path, the chunks assigned to the workers are contiguous, do not         *)
(* overlap, cover exactly [0, size) of the device buffer and               *)
(* [offset, offset + size) of the file, and the number of workers used is  *)
(* min(io_threads, 1 + (size - 1) / 4096).                                 *)
(***************************************************************************)
ChunksCover(chunks, size, offset) ==
    /\ Len(chunks) >= 1
    /\ chunks[1].devPtr_offset = 0
    /\ \A i \in 1..Len(chunks) :
          /\ chunks[i].size >= 0
          /\ chunks[i].offset = offset + chunks[i].devPtr_offset
          /\ IF i < Len(chunks)
             THEN chunks[i + 1].devPtr_offset = chunks[i].devPtr_offset + chunks[i].size
             ELSE chunks[i].devPtr_offset + chunks[i].size = size

C1_PartitionCovers ==
    p_pc = "spawned" =>
        /\ ChunksCover(p_td, p_req.size, p_req.offset)
        /\ Len(p_td) = Min(p_req.io_threads, 1 + (p_req.size - 1) \div PageSize)

(***************************************************************************)
(* C2.  Round trip: on one open handle, a write of S bytes at address A    *)
(* followed by a read of S bytes at A by the same path (device buffer with *)
(* no, one or several workers, or host buffer) returns the bytes written.  *)
(***************************************************************************)
C2_RoundTrip ==
    \A h \in Handles :
        (/\ tpc[h] = "idle"
         /\ ret[h].fn = "read"
         /\ ret[h].value = SUCCEED
         /\ hist.w # NoCall
         /\ ~hist.reopened
         /\ hist.w.addr = ret[h].addr
         /\ hist.w.size = ret[h].size
         /\ hist.w.dev = ret[h].dev)
        => buf = PatRun(hist.w.pat, ret[h].size)

(***************************************************************************)
(* C3.  After a read or write that fails (argument error, seek failure,    *)
(* transfer error, failure to register or deregister the device buffer),   *)
(* the handle's pos is HADDR_UNDEF and its op is OP_UNKNOWN.               *)
(***************************************************************************)
C3_FailedIoInvalidatesPosition ==
    \A h \in Handles :
        (/\ tpc[h] = "idle"
         /\ file[h].st = "open"
         /\ ret[h].fn \in {"read", "write"}
         /\ ret[h].failed # "none")
        => (file[h].pos = HADDR_UNDEF /\ file[h].op = "OP_UNKNOWN")

(***************************************************************************)
(* C4.  A read into a host buffer that starts at a defined address at or   *)
(* past the end of the file, and that no failure of the operating system   *)
(* interrupts, succeeds and fills the whole buffer with zero bytes.        *)
(***************************************************************************)
C4_HostReadPastEndZeroFills ==
    \A h \in Handles :
        (/\ tpc[h] = "idle"
         /\ ret[h].fn = "read"
         /\ ~ret[h].dev
         /\ H5F_addr_defined(ret[h].addr)
         /\ ~REGION_OVERFLOW(ret[h].addr, ret[h].size)
         /\ ret[h].addr >= Bytes(disk.data)
         /\ ret[h].failed \notin {"seek", "io"})
        => (/\ ret[h].value = SUCCEED
            /\ ret[h].failed = "none"
            /\ buf = ZeroRun(ret[h].size))

(* A host read past the end of a file that holds data has returned. *)
C4_Witness ==
    \E h \in Handles :
        /\ tpc[h] = "idle"
        /\ ret[h].fn = "read"
        /\ ~ret[h].dev
        /\ ret[h].value = SUCCEED
        /\ ret[h].failed = "none"
        /\ Bytes(disk.data) > 0
        /\ ret[h].addr >= Bytes(disk.data)
        /\ ret[h].size > H5_POSIX_MAX_IO_BYTES

(***************************************************************************)
(* C5.  set_eoa(v) followed by a truncate that succeeds makes get_eof      *)
(* return v and the file exactly v bytes long (stated for the runs in      *)
(* which no call of the system or of the device library has failed).       *)
(***************************************************************************)
C5_TruncateSetsEofAndFileSize ==
    \A h \in Handles :
        (/\ tpc[h] = "idle"
         /\ nops.faults = 0
         /\ file[h].st = "open"
         /\ ret[h].fn = "truncate"
         /\ ret[h].after_set_eoa
         /\ ret[h].value = SUCCEED)
        => (/\ H5FD_gds_get_eof(h) = ret[h].eoa0
            /\ Bytes(disk.data) = ret[h].eoa0)

(***************************************************************************)
(* C6.  Persistence: a handle opened read-only on a file that was closed   *)
(* reports as eof the size the file had at the close, and a read through   *)
(* it of the bytes the last write before the close stored returns them.    *)
(***************************************************************************)
C6_PersistsAcrossReopen ==
    \A h \in Handles :
        /\ (/\ tpc[h] = "idle"
            /\ file[h].st = "open"
            /\ ~file[h].rdwr
            /\ hist.close_size >= 0)
           => H5FD_gds_get_eof(h) = hist.close_size
        /\ (/\ tpc[h] = "idle"
            /\ file[h].st = "open"
            /\ ~file[h].rdwr
            /\ ret[h].fn = "read"
            /\ ret[h].value = SUCCEED
            /\ hist.w # NoCall
            /\ hist.reopened
            /\ hist.w.addr = ret[h].addr
            /\ hist.w.size = ret[h].size)
           => buf = PatRun(hist.w.pat, ret[h].size)

(***************************************************************************)
(* C7.  A read or write that created worker threads returns only after     *)
(* every one of them has finished: when it returns, each thread's          *)
(* remaining size is 0 and no transfer call of the request is in flight.   *)
(***************************************************************************)
C7_ReturnsAfterAllWorkers ==
    \A h \in Handles :
        (/\ tpc[h] \in {"idle", "unpin"}
         /\ (IF tpc[h] = "idle" THEN ret[h] ELSE tloc[h]).fn \in {"read", "write"}
         /\ (IF tpc[h] = "idle" THEN ret[h] ELSE tloc[h]).workers > 0)
        => (/\ Len(td) = (IF tpc[h] = "idle" THEN ret[h] ELSE tloc[h]).workers
            /\ \A i \in 1..Len(td) : td[i].size = 0)

(* A write by several workers, one of them with more than one block, has   *)
(* returned.                                                               *)
C7_Witness ==
    \E h \in Handles :
        /\ tpc[h] = "idle"
        /\ ret[h].fn = "write"
        /\ ret[h].workers > 1
        /\ ret[h].size > ret[h].workers * PageSize
        /\ ret[h].failed = "none"

(***************************************************************************)
(* C8.  In every state reached by a serial sequence of open and close      *)
(* calls on any number of handles, if a handle is open then the cuFile     *)
(* driver is open.                                                         *)
(***************************************************************************)
C8_DriverOpenWhileHandleOpen ==
    (serial /\ \A h \in Handles : tpc[h] = "idle") =>
        ((\E h \in Handles : file[h].st = "open") => drv_open)

(***************************************************************************)
(* C9.  Under any interleaving of open and close calls on different        *)
(* handles, cuFileDriverOpen is never called while the driver is open and  *)
(* cuFileDriverClose is never called while it is closed.                   *)
(***************************************************************************)
C9_NoDoubleInitNoDoubleTeardown ==
    ~drv_calls.open_on_open /\ ~drv_calls.close_on_closed

(***************************************************************************)
(* C10.  When open fails after it has acquired a resource, every resource  *)
(* acquired is released before it returns: both descriptors closed, the    *)
(* cuFile handle deregistered, the per-worker arrays and the H5FD_gds_t    *)
(* freed.                                                                  *)
(***************************************************************************)
C10_FailedOpenReleasesAll ==
    \A h \in Handles :
        (tpc[h] = "idle" /\ ret[h].fn = "open" /\ ret[h].value = "NULL") =>
            /\ ~file[h].fd
            /\ ~file[h].direct_fd
            /\ ~file[h].cf_handle
            /\ ~file[h].arrays
            /\ ~file[h].obj

(***************************************************************************)
(* C11.  Close is best-effort: whichever teardown step fails, the rest are *)
(* still attempted, so that when close returns both descriptors have been  *)
(* passed to close() and the H5FD_gds_t has been freed; and a failure to   *)
(* close the ordinary descriptor makes close return FAIL.                  *)
(***************************************************************************)
C11_CloseIsBestEffort ==
    \A h \in Handles :
        (tpc[h] = "idle" /\ ret[h].fn = "close") =>
            /\ ~file[h].direct_fd
            /\ ~file[h].fd
            /\ ~file[h].obj
            /\ ret[h].failed = "fd" => ret[h].value = "FAIL"

(***************************************************************************)
(* C12.  No error of the cuFile library is swallowed: a read or write in   *)
(* which cuFileBufRegister or cuFileBufDeregister fails returns FAIL, and  *)
(* a close in which cuFileDriverClose fails returns FAIL.                  *)
(***************************************************************************)
C12_NoCuFileErrorSwallowed ==
    \A h \in Handles :
        tpc[h] = "idle" =>
            /\ (ret[h].fn \in {"read", "write"} /\ ret[h].failed \in {"pin", "unpin"})
               => ret[h].value = FAIL
            /\ (ret[h].fn = "close" /\ ret[h].failed = "driver")
               => ret[h].value = "FAIL"

C14_EofIsFileSize ==
    \A h \in Handles :
        (tpc[h] = "idle" /\ file[h].st = "open" /\ nops.faults = 0)
        => H5FD_gds_get_eof(h) = Bytes(disk.data)

(***************************************************************************)
(* C15.  After a read or write that succeeded, by whichever path, op is    *)
(* OP_READ or OP_WRITE accordingly and pos is defined and is the address   *)
(* just past the last byte transferred.                                    *)
(***************************************************************************)
C15_TrackerFollowsEveryTransfer ==
    \A h \in Handles :
        (/\ tpc[h] = "idle"
         /\ file[h].st = "open"
         /\ ret[h].fn \in {"read", "write"}
         /\ ret[h].value = SUCCEED
         /\ ret[h].failed = "none")
        => LET transferred ==
                   IF ret[h].fn = "write" \/ ret[h].dev
                   THEN ret[h].size
                   ELSE Min(ret[h].size, Max(0, Bytes(disk.data) - ret[h].addr))
           IN  /\ file[h].op = (IF ret[h].fn = "read" THEN "OP_READ" ELSE "OP_WRITE")
               /\ file[h].pos # HADDR_UNDEF
               /\ file[h].pos = ret[h].addr + transferred


(***************************************************************************)
(* C16.  H5FD_gds_cmp is a total order on the identity (device, inode) of  *)
(* the file a handle was opened on: it returns 0 exactly when the two      *)
(* handles hold the same device and the same inode (so two handles on the  *)
(* same physical file compare equal and handles on different files do      *)
(* not), cmp(a, b) = -cmp(b, a), and it is transitive.                     *)
(***************************************************************************)
C16_CmpIsTotalOrder ==
    (c_pc = "returned" /\ c_req.fn = "cmp") =>
        /\ c_ret.r12 \in {-1, 0, 1}
        /\ c_ret.r12 = 0 <=> (c_req.f1.device = c_req.f2.device
                                /\ c_req.f1.inode = c_req.f2.inode)
        /\ c_ret.r12 = -c_ret.r21
        /\ (c_ret.r12 <= 0 /\ c_ret.r23 <= 0) => c_ret.r13 <= 0
        /\ (c_ret.r12 < 0 /\ c_ret.r23 <= 0) => c_ret.r13 < 0
        /\ (c_ret.r12 <= 0 /\ c_ret.r23 < 0) => c_ret.r13 < 0

(* Three handles on three different files of one device, compared in       *)
(* ascending order of inode.                                               *)
C16_Witness ==
    /\ c_pc = "returned"
    /\ c_req.fn = "cmp"
    /\ c_req.f1.device = c_req.f2.device
    /\ c_req.f2.device = c_req.f3.device
    /\ c_req.f1.inode < c_req.f2.inode
    /\ c_req.f2.inode < c_req.f3.inode
    /\ c_ret.r12 = -1
    /\ c_ret.r21 = 1
    /\ c_ret.r13 = -1

(***************************************************************************)
(* C17.  H5FD_gds_lock never blocks: a lock request, exclusive or shared,  *)
(* on a file that another handle holds exclusively returns FAIL at once,   *)
(* with an error (errno and message) different from the one reported when  *)
(* the file system does not support locking; after H5FD_gds_unlock the     *)
(* lock is released, so that a lock request made while no other handle     *)
(* holds a lock succeeds.                                                  *)
(***************************************************************************)
C17_LockNeverBlocks ==
    \A h \in Handles :
        /\ tpc[h] # "blocked"
        /\ (tpc[h] = "idle" /\ ret[h].fn = "lock") =>
              /\ (\E g \in Handles \ {h} : ret[h].held[g] = "LOCK_EX") =>
                    /\ ret[h].value = FAIL
                    /\ can_flock => /\ ret[h].errno = "EWOULDBLOCK"
                                    /\ ret[h].msg # LockMessage("ENOSYS", "lock")
              /\ ~can_flock => /\ ret[h].value = FAIL
                               /\ ret[h].msg = LockMessage("ENOSYS", "lock")
              /\ (can_flock /\ \A g \in Handles \ {h} : ret[h].held[g] = "LOCK_UN") =>
                    /\ ret[h].value = SUCCEED
                    /\ file[h].lock = (IF ret[h].rw THEN "LOCK_EX" ELSE "LOCK_SH")
        /\ (tpc[h] = "idle" /\ ret[h].fn = "unlock" /\ ret[h].value = SUCCEED) =>
              file[h].lock = "LOCK_UN"

(* Handle 2 asked for a lock while handle 1 held the file exclusively, and *)
(* was refused; handle 1 has since unlocked.                               *)
C17_Witness ==
    /\ tpc[2] = "idle"
    /\ ret[2].fn = "lock"
    /\ ret[2].held[1] = "LOCK_EX"
    /\ ret[2].value = FAIL
    /\ ret[1].fn = "unlock"
    /\ ret[1].value = SUCCEED
    /\ file[1].lock = "LOCK_UN"

C19_Args(h) ==
    IF tpc'[h] = "idle" THEN ret'[h] ELSE tloc'[h]

C19_ArgErrorsBeforeIo ==
    [][\A h \in Handles :
          /\ (tpc[h] = "idle" /\ nops'.data = nops.data + 1
                /\ C19_Args(h).fn \in {"read", "write"}
                /\ LET addr == IF tpc'[h] = "idle" THEN ret'[h].addr ELSE tloc'[h].addr0
                       size == IF tpc'[h] = "idle" THEN ret'[h].size ELSE tloc'[h].size0
                   IN  \/ addr = HADDR_UNDEF
                       \/ addr > MAXADDR
                       \/ size > MAXADDR
                       \/ addr + size > MAXADDR)
             => /\ tpc'[h] = "idle"
                /\ ret'[h].value = FAIL
                /\ disk' = disk
                /\ ~pinned'
                /\ file'[h].fdpos = file[h].fdpos
                /\ file'[h].eoa = file[h].eoa
                /\ file'[h].eof = file[h].eof
          /\ (tpc[h] = "o_args"
                /\ \/ C19_Args(h).name = ""
                   \/ C19_Args(h).maxaddr = 0
                   \/ C19_Args(h).maxaddr = HADDR_UNDEF
                   \/ C19_Args(h).maxaddr > MAXADDR)
             => /\ tpc'[h] = "idle"
                /\ ret'[h].value = "NULL"
                /\ ~file'[h].fd
                /\ ~file'[h].direct_fd
                /\ disk' = disk
    ]_vars

(* A write of 10 bytes at a defined address 5 bytes below the largest      *)
(* offset has returned FAIL for its arguments.                             *)
C19_Witness ==
    /\ tpc[1] = "idle"
    /\ ret[1].fn = "write"
    /\ ret[1].addr = MAXADDR - 5
    /\ ret[1].size = 10
    /\ ret[1].failed = "arg"
    /\ ret[1].value = FAIL


(***************************************************************************)
(* C20.  As stated: a device-path request of 10 bytes on a handle with     *)
(* io_threads = 3 is split across three workers with lengths 3, 3 and 4.   *)
(***************************************************************************)
C20_ThreeWorkers ==
    (p_pc = "spawned" /\ p_req.size = 10 /\ p_req.io_threads = 3) =>
        /\ Len(p_td) = 3
        /\ p_td[1].size = 3
        /\ p_td[2].size = 3
        /\ p_td[3].size = 4

(***************************************************************************)
(* C20, amended.  A device-path request of 10 bytes on a handle with       *)
(* io_threads = 3 lies within one 4096-byte page, so the number of workers *)
(* is reduced to 1, and that worker is given all 10 bytes, from offset 0   *)
(* of the buffer and from the request's offset in the file.                *)
(***************************************************************************)
C20_OneWorkerOfTen ==
    (p_pc = "spawned" /\ p_req.size = 10 /\ p_req.io_threads = 3) =>
        /\ Len(p_td) = 1
        /\ p_td[1].size = 10
        /\ p_td[1].devPtr_offset = 0
        /\ p_td[1].offset = p_req.offset

C20_Witness ==
    /\ p_pc = "spawned"
    /\ p_req.size = 10
    /\ p_req.io_threads = 3
    /\ p_req.offset = PageSize
    /\ Len(p_td) = 1
    /\ p_td[1].size = 10


(***************************************************************************)
(* C21.  H5FD_gds_get_eof returns the greater of the file's size in the    *)
(* file system and the end-of-address marker, in every state of an open    *)
(* handle, also after H5FD_gds_set_eoa raised eoa above the file's size    *)
(* and no truncate followed.                                               *)
(***************************************************************************)
C21_GetEofIsMaxOfEofAndEoa ==
    \A h \in Handles :
        (tpc[h] = "idle" /\ file[h].st = "open" /\ nops.faults = 0)
        => H5FD_gds_get_eof(h) = Max(Bytes(disk.data), H5FD_gds_get_eoa(h))


(***************************************************************************)
(* C22.  When H5FD_gds_open has returned a handle and no other call has    *)
(* been made on it, eof is the size of the file (0 when the file was       *)
(* opened with the truncate flag), eoa is 0, pos is HADDR_UNDEF and op is  *)
(* OP_UNKNOWN.                                                             *)
(***************************************************************************)
C22_OpenSeedsTracker ==
    \A h \in Handles :
        (tpc[h] = "idle" /\ ret[h].fn = "open" /\ ret[h].value = "file") =>
            /\ file[h].eof = Bytes(disk.data)
            /\ ret[h].flags.trunc => file[h].eof = 0
            /\ file[h].eoa = 0
            /\ file[h].pos = HADDR_UNDEF
            /\ file[h].op = "OP_UNKNOWN"

(* An existing file of PageSize + 10 bytes opened without truncation. *)
C22_Witness ==
    /\ tpc[1] = "idle"
    /\ ret[1].fn = "open"
    /\ ret[1].value = "file"
    /\ ~ret[1].flags.trunc
    /\ Bytes(disk.data) = PageSize + 10
    /\ file[1].eof = PageSize + 10


(***************************************************************************)
(* C23.  The transfer calls of one worker: every call's length is at most  *)
(* the block size; each call after the first is at the file offset and     *)
(* the device offset of the call before it advanced by that call's length; *)
(* every call but the last has the length of the block size; and when the  *)
(* worker returns the lengths sum to the length it was assigned.           *)
(***************************************************************************)
RECURSIVE C23_Sum(_)
C23_Sum(calls) ==
    IF calls = <<>> THEN 0 ELSE Head(calls).n + C23_Sum(Tail(calls))

C23_WorkerCallSequence ==
    (c_pc \in {"loop", "returned", "aborted"}) =>
        LET calls == c_ret.calls
            t0 == c_req.td
        IN  /\ \A k \in 1..Len(calls) : calls[k].n <= t0.block_size
            /\ Len(calls) > 0 =>
                  /\ calls[1].offset = t0.offset
                  /\ calls[1].devPtr_offset = t0.devPtr_offset
            /\ \A k \in 1..(Len(calls) - 1) :
                  /\ calls[k + 1].offset = calls[k].offset + calls[k].n
                  /\ calls[k + 1].devPtr_offset = calls[k].devPtr_offset + calls[k].n
                  /\ calls[k].n = t0.block_size
            /\ c_pc = "returned" => C23_Sum(calls) = t0.size

(* A worker assigned two pages and one byte has returned after two calls   *)
(* of one page and a last call of one byte.                                *)
C23_Witness ==
    /\ c_pc = "returned"
    /\ c_req.td.size = 2 * PageSize + 1
    /\ c_req.td.block_size = PageSize
    /\ Len(c_ret.calls) = 3
    /\ c_ret.calls[3].n = 1

(***************************************************************************)
(* C24.  Every worker terminates: whatever length greater than 0 it was    *)
(* assigned and whatever the block size, 0 included, if every transfer     *)
(* call returns then the loop reaches remaining length 0 after finitely    *)
(* many calls and the worker returns.                                      *)
(***************************************************************************)
C24_WorkerTerminates ==
    (c_pc = "request" /\ c_req.td.size > 0) ~> (c_pc = "returned")


(***************************************************************************)
(* C25.  After the reduction of the number of workers to the number of     *)
(* pages, every worker touches at least one page: no worker is assigned 0  *)
(* bytes, and when the request is of 4096 bytes or more no worker is       *)
(* assigned fewer than 4096 bytes.  (Requests whose size the unsigned type *)
(* holds; the larger ones are C33's.)                                      *)
(***************************************************************************)
C25_EveryWorkerHasAPage ==
    (p_pc = "spawned" /\ p_req.size < UINT_MOD) =>
        \A i \in 1..Len(p_td) :
            /\ p_td[i].size > 0
            /\ p_req.size >= PageSize => p_td[i].size >= PageSize


(***************************************************************************)
(* C26.  While the workers of a call run, under every interleaving: the    *)
(* ranges of the file and of the device buffer that the workers have still *)
(* to transfer are pairwise disjoint; a step of a worker changes its own   *)
(* td[i] and no other; the bytes it transfers are the first of its own     *)
(* remaining range, and what remains to it afterwards is the rest of that  *)
(* range.  Hence no byte of the file or of the buffer is transferred by    *)
(* two workers, and none twice.                                            *)
(***************************************************************************)
C26_Disjoint(a, n, b, m) == n = 0 \/ m = 0 \/ a + n <= b \/ b + m <= a

C26_WorkersDisjoint ==
    [][\A h \in Handles :
          tpc[h] = "workers" =>
             /\ \A i, j \in 1..Len(td) :
                   i # j =>
                      /\ C26_Disjoint(td[i].offset, td[i].size,
                                      td[j].offset, td[j].size)
                      /\ C26_Disjoint(td[i].devPtr_offset, td[i].size,
                                      td[j].devPtr_offset, td[j].size)
             /\ td' # td =>
                   \E i \in 1..Len(td) :
                      LET n == td[i].size - td'[i].size
                      IN  /\ Len(td') = Len(td)
                          /\ \A j \in 1..Len(td) : j # i => td'[j] = td[j]
                          /\ n > 0
                          /\ n <= td[i].size
                          /\ td'[i].size > 0 =>
                                /\ td'[i].offset = td[i].offset + n
                                /\ td'[i].devPtr_offset = td[i].devPtr_offset + n
    ]_vars

(* Two workers, the first done with its page, the second with its first    *)
(* page done and one byte left.                                            *)
C26_Witness ==
    /\ tpc[1] = "workers"
    /\ Len(td) = 2
    /\ td[1].size = 0
    /\ td[2].size = 1
    /\ td[2].offset = td[1].offset + 2 * PageSize


(***************************************************************************)
(* C27.  A host-path write of size bytes at addr that returns SUCCEED      *)
(* leaves pos = addr + size, op = OP_WRITE and eof = max(eof before the    *)
(* call, addr + size); no step of a host-path write lowers eof, and no     *)
(* step of a host-path read changes it.                                    *)
(***************************************************************************)
C27_Call(h) ==
    IF tpc'[h] = "idle" THEN ret'[h] ELSE tloc'[h]

C27_HostWriteUpdatesTracker ==
    [][\A h \in Handles :
          /\ (tpc[h] = "idle" /\ nops'.data = nops.data + 1
                /\ C27_Call(h).fn \in {"read", "write"} /\ ~C27_Call(h).dev)
             => file'[h].eof = file[h].eof
          /\ (tpc[h] = "host" /\ tloc[h].fn = "read")
             => file'[h].eof = file[h].eof
          /\ (tpc[h] = "host" /\ tloc[h].fn = "write")
             => /\ file'[h].eof >= file[h].eof
                /\ tpc'[h] = "host" => file'[h].eof = file[h].eof
                /\ (tpc'[h] = "idle" /\ ret'[h].value = SUCCEED)
                   => /\ file'[h].pos = ret'[h].addr + ret'[h].size
                      /\ file'[h].op = "OP_WRITE"
                      /\ file'[h].eof = Max(file[h].eof, ret'[h].addr + ret'[h].size)
    ]_vars

(* A host write of two pages and a byte at the second page of a file of    *)
(* one page and ten bytes has returned.                                    *)
C27_Witness ==
    /\ tpc[1] = "idle"
    /\ ret[1].fn = "write"
    /\ ~ret[1].dev
    /\ ret[1].value = SUCCEED
    /\ ret[1].failed = "none"
    /\ ret[1].addr = PageSize
    /\ ret[1].size = 2 * PageSize + 1
    /\ file[1].pos = 3 * PageSize + 1
    /\ file[1].eof = 3 * PageSize + 1


(***************************************************************************)
(* C28.  In a build without pread/pwrite, after every sequence of reads,   *)
(* writes and truncates on a handle, on either path, succeeding or         *)
(* failing: when pos is defined and op is OP_READ or OP_WRITE, the         *)
(* position of the descriptor file->fd is pos.  So the HDlseek is skipped  *)
(* only when the descriptor already stands at the address asked for, and   *)
(* every transfer of the host loop takes place at the loop's addr.         *)
(***************************************************************************)
C28_CursorIsPos ==
    \A h \in Handles :
        (~have_pread /\ file[h].st = "open") =>
            /\ (tpc[h] = "idle" /\ file[h].pos # HADDR_UNDEF
                  /\ file[h].op \in {"OP_READ", "OP_WRITE"})
               => file[h].fdpos = file[h].pos
            /\ tpc[h] = "host" => file[h].fdpos = tloc[h].addr

(* A host write at address 10 is about to transfer its first byte, the     *)
(* HDlseek skipped: pos and op are still those a write of 10 bytes at      *)
(* address 0 left.                                                         *)
C28_Witness ==
    /\ ~have_pread
    /\ tpc[1] = "host"
    /\ tloc[1].fn = "write"
    /\ tloc[1].addr0 = 10
    /\ tloc[1].size = 10
    /\ file[1].pos = 10
    /\ file[1].op = "OP_WRITE"
    /\ file[1].fdpos = 10


(***************************************************************************)
(* C29.  An interrupted read or write system call of the host path is      *)
(* never returned to the caller.  The interruption leaves the call in      *)
(* progress with the same offset, the same length and the same place in    *)
(* the buffer, and the file, the buffer, the descriptor and the handle as  *)
(* they were, so that the call goes on exactly as it would have without    *)
(* it: no byte is skipped or transferred twice.  The interruptions being   *)
(* finitely many, the call returns.                                        *)
(***************************************************************************)
C29_InterruptionIsRetried ==
    /\ [][\A h \in Handles :
             (tpc[h] = "host" /\ nops'.eintr # nops.eintr) =>
                 /\ tpc'[h] = "host"
                 /\ tloc'[h] = tloc[h]
                 /\ ret'[h] = ret[h]
                 /\ file'[h] = file[h]
                 /\ disk' = disk
                 /\ buf' = buf
       ]_vars
    /\ \A h \in Handles : (tpc[h] = "host") ~> (tpc[h] = "idle")

(* A host read was interrupted once and has returned all its bytes. *)
C29_Witness ==
    /\ nops.eintr = 1
    /\ tpc[1] = "idle"
    /\ ret[1].fn = "read"
    /\ ~ret[1].dev
    /\ ret[1].value = SUCCEED
    /\ ret[1].failed = "none"
    /\ ret[1].size = 10
    /\ buf = Slice(disk.data, ret[1].addr, 10)

(* The host-path call on h, in its loop or returned: where it began, its   *)
(* size and its last transfer call.                                        *)
C30_Call(h) ==
    IF tpc[h] = "host"
    THEN [host |-> TRUE, addr |-> tloc[h].addr0, size |-> tloc[h].size0,
          sys |-> tloc[h].sys]
    ELSE IF tpc[h] = "idle" /\ ret[h].fn \in {"read", "write"}
         THEN [host |-> ~ret[h].dev, addr |-> ret[h].addr, size |-> ret[h].size,
               sys |-> ret[h].sys]
         ELSE [host |-> FALSE, addr |-> 0, size |-> 0, sys |-> NoSys]

(***************************************************************************)
(* C30.  Every transfer call of the host-path loop asks for at most        *)
(* H5_POSIX_MAX_IO_BYTES bytes and at most the bytes still outstanding,    *)
(* and is made at the file offset and the buffer position advanced by the  *)
(* bytes transferred so far.  A successful read whose transfer call found  *)
(* nothing left in the file after k < size bytes leaves the first k bytes  *)
(* of the buffer as read from the file and the other size - k bytes zero,  *)
(* with pos = addr + k.                                                    *)
(***************************************************************************)
C30_HostLoopAdvances ==
    \A h \in Handles :
        LET c == C30_Call(h)
            k == c.sys.done
        IN  (c.host /\ c.sys.n > 0) =>
               /\ c.sys.n <= H5_POSIX_MAX_IO_BYTES
               /\ c.sys.n <= c.size - k
               /\ c.sys.at = c.addr + k
               /\ (/\ tpc[h] = "idle"
                   /\ ret[h].fn = "read"
                   /\ ret[h].value = SUCCEED
                   /\ ret[h].failed = "none"
                   /\ k < c.size
                   /\ Bytes(disk.data) <= c.sys.at)
                  => (/\ Slice(buf, 0, k) = Slice(disk.data, c.addr, k)
                      /\ Slice(buf, k, c.size - k) = ZeroRun(c.size - k)
                      /\ Bytes(buf) = c.size
                      /\ file[h].pos = c.addr + k)

(* A read of two pages and a byte that begins ten bytes before the end of  *)
(* the file has returned: one transfer call brought the ten bytes, the     *)
(* next, for the 8183 bytes left, found nothing.                           *)
C30_Witness ==
    /\ tpc[1] = "idle"
    /\ ret[1].fn = "read"
    /\ ~ret[1].dev
    /\ ret[1].value = SUCCEED
    /\ ret[1].failed = "none"
    /\ ret[1].addr = PageSize
    /\ ret[1].size = 2 * PageSize + 1
    /\ ret[1].sys = [n |-> 2 * PageSize - 9, at |-> PageSize + 10, done |-> 10]
    /\ file[1].pos = PageSize + 10
    /\ Slice(buf, 0, 10) = Slice(disk.data, PageSize, 10)
    /\ Slice(buf, 10, 2 * PageSize - 9) = ZeroRun(2 * PageSize - 9)

(* The step is a call of H5FD_gds_truncate on h. *)
C31_Truncates(h) ==
    /\ tpc[h] = "idle"
    /\ tpc'[h] = "idle"
    /\ nops'.data = nops.data + 1
    /\ ret'[h].fn = "truncate"

(***************************************************************************)
(* C31.  A truncate called with eoa = eof succeeds, leaves the file as it  *)
(* is and leaves eof, eoa, pos and op (the whole H5FD_gds_t) unchanged; a  *)
(* truncate whose HDftruncate fails returns FAIL and leaves eof and eoa    *)
(* unchanged; a truncate that succeeds ends with eoa = eof, so that         *)
(* another one would change nothing.                                       *)
(***************************************************************************)
C31_TruncateFrame ==
    [][\A h \in Handles :
          C31_Truncates(h) =>
             /\ (file[h].eoa = file[h].eof) =>
                   /\ ret'[h].value = SUCCEED
                   /\ disk' = disk
                   /\ file'[h] = file[h]
             /\ (ret'[h].failed = "ftruncate") =>
                   /\ ret'[h].value = FAIL
                   /\ disk' = disk
                   /\ file'[h].eof = file[h].eof
                   /\ file'[h].eoa = file[h].eoa
             /\ (ret'[h].value = SUCCEED) => (file'[h].eoa = file'[h].eof)]_vars

(* A truncate with eoa = eof has returned on a handle whose pos is defined *)
(* by the read before it.                                                  *)
C31_Witness ==
    \E h \in Handles :
        /\ tpc[h] = "idle"
        /\ ret[h].fn = "truncate"
        /\ ret[h].value = SUCCEED
        /\ ret[h].eoa0 = ret[h].eof0
        /\ ret[h].pos0 # HADDR_UNDEF
        /\ file[h].pos = ret[h].pos0
        /\ file[h].op = "OP_READ"

(***************************************************************************)
(* C32.  The check H5FD_gds_read and H5FD_gds_write begin with passes a    *)
(* pair (addr, size) exactly when addr is defined, addr <= MAXADDR,        *)
(* size <= MAXADDR and addr + size <= MAXADDR, the sum taken without        *)
(* wrapping; every other pair, those whose sum wraps around the address    *)
(* type among them, fails with H5E_BADVALUE or H5E_OVERFLOW.               *)
(***************************************************************************)
C32_AcceptsExactlyWithinMaxaddr ==
    (c_pc = "returned" /\ c_req.fn = "args") =>
        LET addr == c_req.addr
            size == c_req.size
            within == /\ addr # Pow2(OffBits) - 1
                      /\ addr <= Pow2(OffBits - 1) - 1
                      /\ size <= Pow2(OffBits - 1) - 1
                      /\ addr + size <= Pow2(OffBits - 1) - 1
        IN  /\ within <=> (c_ret.error = "none")
            /\ ~within => c_ret.error \in {"H5E_BADVALUE", "H5E_OVERFLOW"}

(* A pair whose sum wraps around the address type to a value within        *)
(* MAXADDR has been rejected.                                              *)
C32_Witness ==
    /\ c_pc = "returned"
    /\ c_req.fn = "args"
    /\ c_req.addr > MAXADDR
    /\ c_req.addr # HADDR_UNDEF
    /\ c_req.addr + c_req.size >= Pow2(OffBits)
    /\ (c_req.addr + c_req.size) % Pow2(OffBits) <= MAXADDR
    /\ c_ret.error = "H5E_OVERFLOW"

(***************************************************************************)
(* C33.  The chunk arithmetic of the device path keeps every bit of size:  *)
(* with n workers, each worker but the last gets size / n bytes and the    *)
(* last size / n + size % n, both taken from the whole size, sizes beyond  *)
(* the range of unsigned included; worker i begins i * (size / n) bytes    *)
(* into the request, in the file and in the buffer.                        *)
(***************************************************************************)
C33_ChunksFromFullSize ==
    p_pc = "spawned" =>
        LET n == Len(p_td)
            base == p_req.size \div n
            rem == p_req.size % n
        IN  /\ n >= 1
            /\ \A i \in 1..n :
                  /\ p_td[i].size = IF i = n THEN base + rem ELSE base
                  /\ p_td[i].devPtr_offset = (i - 1) * base
                  /\ p_td[i].offset = p_req.offset + (i - 1) * base

(***************************************************************************)
(* C34.  While a handle is open no call (read, write, truncate, lock,      *)
(* unlock, set_eoa) and no step of one changes its num_io_threads or its   *)
(* io_block_size, and every device-path request on a handle with worker    *)
(* threads is served by min(num_io_threads, pages of the request) workers, *)
(* whatever the requests before it were: a small request does not lower    *)
(* the number of workers of a later large one.                             *)
(***************************************************************************)
C34_ConfigIsImmutable ==
    /\ [][\A h \in Handles :
             (file[h].st = "open" /\ file'[h].st = "open") =>
                /\ file'[h].num_io_threads = file[h].num_io_threads
                /\ file'[h].io_block_size = file[h].io_block_size]_vars
    /\ [](\A h \in Handles :
             (/\ tpc[h] = "idle"
              /\ ret[h].fn \in {"read", "write"}
              /\ ret[h].dev
              /\ ret[h].failed = "none"
              /\ file[h].num_io_threads > 0)
             => ret[h].workers = Min(IoThreads, 1 + (ret[h].size - 1) \div PageSize))

(* A device-path write of two pages and a byte has been served by two      *)
(* workers after a device-path write of ten bytes (the bytes w1 at the     *)
(* head of the file, the old bytes after them; pos, which every host-path  *)
(* call sets, still undefined) was served by one.                          *)
C34_Witness ==
    /\ tpc[1] = "idle"
    /\ nops.data = 2
    /\ ret[1].fn = "write"
    /\ ret[1].dev
    /\ ret[1].failed = "none"
    /\ ret[1].addr = PageSize
    /\ ret[1].size = 2 * PageSize + 1
    /\ ret[1].workers = 2
    /\ file[1].pos = HADDR_UNDEF
    /\ Slice(disk.data, 0, 10) = PatRun("w1", 10)
    /\ Slice(disk.data, 10, 1) = Slice(PatRun("old", PageSize), 10, 1)
    /\ file[1].num_io_threads = 2
    /\ file[1].io_block_size = PageSize

====
